---------------------------- MODULE Spec2Model ----------------------------
(***************************************************************************)
(* A model of the charmath linear-algebra core of charengine: the scalar   *)
(* trait CharMathNumeric (charmath/src/numeric.rs) and the matrix traits   *)
(* MatrixBase, Matrix and SquareMatrix with their implementations          *)
(* GenericMatrix, Mat2 and Mat4 (charmath/src/linear/matrix.rs).           *)
(*                                                                         *)
(* The library is a set of pure functions over owned values.  Each         *)
(* specification below is a small harness: Init draws the arguments of a   *)
(* call from bounded sets, and one action per library call applies the     *)
(* function as the source computes it and stores what it returned.         *)
(*                                                                         *)
(* Indices are 0-based as in the source; TLA+ sequences are 1-based, so    *)
(* cell (i, j) of a matrix m is m.mat[i + 1][j + 1].                       *)
(***************************************************************************)
EXTENDS Integers, Sequences, FiniteSets, TLC

VARIABLES
    N,                \* the scalar type the generic code is instantiated with
    overflow_checks,  \* the build: TRUE = overflow-checked (debug), FALSE = wrapping
    call,             \* the library call that has returned last, with its arguments
    arr, h, w,        \* the arguments of from_flat
    self, rhs,        \* the receiver and the right operand of a matrix call
    num,              \* the scalar argument of a numeric call
    vec, other,       \* the receiver and the operand of a vector call
    man,              \* the DefaultEventManager
    processed,        \* history: the events handed to process_events so far
    ret,              \* what the last call returned (NoMat / Panic when it panicked)
    pc,               \* where the control of start / render_loop / poll_events stands
    log,              \* history: the callbacks called so far, with what they returned
    window,           \* the NativeGlWindow
    threads,          \* the image loader threads and their channels
    textures          \* the shared GPU textures

vars == <<N, overflow_checks, call, arr, h, w, self, rhs, num, vec, other,
          man, processed, ret, pc, log, window, threads, textures>>

\* no application is running and no window is open
NoApp ==
    /\ pc = "none"
    /\ log = <<>>
    /\ window = <<>>
    /\ threads = <<>>
    /\ textures = <<>>

---------------------------------------------------------------------------
(* Bounds of the model.                                                    *)

\* largest height and width handed to from_flat
MaxDim == 2
\* longest flat array handed to from_flat
MaxLen == 4
\* largest height and width of an operand of mul_mat
MaxMulDim == 2
\* longest flat array an operand of mul_mat is built from
MaxMulLen == 3
\* largest height and width of the receiver of a square-matrix call
MaxSqDim == 3
\* longest flat array the receiver of a square-matrix call is built from
MaxSqLen == 4
\* largest size handed to identity
MaxIdentity == 4
\* largest magnitude of a translation component of a rigid transform
MaxT == 1

---------------------------------------------------------------------------
(* Scalars: numeric.rs.  The integer instances of charmath_numeric! are    *)
(* modelled at 8 bits: i8 (signed, NEG_SYM = -1) and u8 (unsigned,         *)
(* NEG_SYM = 1).  The floating-point instance f64 is modelled by the real  *)
(* numbers its values stand for, without rounding, as far as the calls     *)
(* modelled need them: the numbers (a + b * sqrt(2) + p * pi) / 2^e with   *)
(* integers a, b, p and a natural e, kept as records [a, b, p, e] in       *)
(* lowest terms.                                                           *)

Bits == 8

Types == {"i8", "u8"}

Signed == N = "i8"

IsFloat == N = "f64"

\* the real number (a + b * sqrt(2) + p * pi) / 2^e, in lowest terms
RECURSIVE Real(_, _, _, _)
Real(a, b, p, e) ==
    IF e > 0 /\ a % 2 = 0 /\ b % 2 = 0 /\ p % 2 = 0
    THEN Real(a \div 2, b \div 2, p \div 2, e - 1)
    ELSE [a |-> a, b |-> b, p |-> p, e |-> e]

\* a result that is a real number outside the numbers modelled
NotModelled == [a |-> 0, b |-> 0, p |-> 0, e |-> -2]

\* x has neither a sqrt(2) nor a pi part
IsRational(x) == x.b = 0 /\ x.p = 0

RealAdd(x, y) ==
    IF x = NotModelled \/ y = NotModelled THEN NotModelled
    ELSE LET e == IF x.e > y.e THEN x.e ELSE y.e
             sx == 2 ^ (e - x.e)
             sy == 2 ^ (e - y.e)
         IN  Real(x.a * sx + y.a * sy, x.b * sx + y.b * sy, x.p * sx + y.p * sy, e)

RealNeg(x) == IF x = NotModelled THEN NotModelled ELSE Real(-x.a, -x.b, -x.p, x.e)

\* the product; a multiple of pi is multiplied by rationals only
RealMul(x, y) ==
    IF x = NotModelled \/ y = NotModelled THEN NotModelled
    ELSE IF (x.p # 0 /\ ~IsRational(y)) \/ (y.p # 0 /\ ~IsRational(x))
    THEN NotModelled
    ELSE Real(x.a * y.a + 2 * x.b * y.b, x.a * y.b + x.b * y.a,
              x.p * y.a + x.a * y.p, x.e + y.e)

\* the quotient, for a divisor that is plus or minus a power of two
RealDiv(x, y) ==
    IF x = NotModelled \/ y = NotModelled THEN NotModelled
    ELSE IF ~IsRational(y) \/ y.a \notin {1, -1} THEN NotModelled
    ELSE Real(x.a * y.a * 2 ^ y.e, x.b * y.a * 2 ^ y.e, x.p * y.a * 2 ^ y.e, x.e)

MinOf == IF Signed THEN -(2 ^ (Bits - 1)) ELSE 0
MaxOf == IF Signed THEN 2 ^ (Bits - 1) - 1 ELSE 2 ^ Bits - 1

\* The outcome "the call panicked", for a call that returns a scalar.  It is
\* an integer outside the range of every integer type (for f64, a record
\* that is no number), so that it can stand where a scalar stands.
Panic == IF IsFloat THEN [a |-> 0, b |-> 0, p |-> 0, e |-> -1] ELSE 2 ^ (2 * Bits)

Fits(r) == MinOf <= r /\ r <= MaxOf

\* Two's complement wrap-around of an out-of-range result (unchecked build).
Wrap(r) ==
    IF Signed
    THEN ((r + 2 ^ (Bits - 1)) % (2 ^ Bits)) - 2 ^ (Bits - 1)
    ELSE r % (2 ^ Bits)

\* The result r of +, - or * : a checked build panics on overflow, an
\* unchecked build wraps.
Arith(r) ==
    IF Fits(r) THEN r
    ELSE IF overflow_checks THEN Panic ELSE Wrap(r)

add(l, r) ==
    IF l = Panic \/ r = Panic THEN Panic
    ELSE IF IsFloat THEN RealAdd(l, r) ELSE Arith(l + r)
sub(l, r) ==
    IF l = Panic \/ r = Panic THEN Panic
    ELSE IF IsFloat THEN RealAdd(l, RealNeg(r)) ELSE Arith(l - r)
mul(l, r) ==
    IF l = Panic \/ r = Panic THEN Panic
    ELSE IF IsFloat THEN RealMul(l, r) ELSE Arith(l * r)

Abs(r) == IF r < 0 THEN -r ELSE r

\* Integer division truncates toward zero; division by zero and the
\* overflowing MIN / -1 panic in every build.  Floating-point division
\* never panics.
div(l, r) ==
    IF l = Panic \/ r = Panic THEN Panic
    ELSE IF IsFloat THEN RealDiv(l, r)
    ELSE IF r = 0 THEN Panic
    ELSE LET q == IF (l < 0) = (r < 0)
                  THEN Abs(l) \div Abs(r)
                  ELSE -(Abs(l) \div Abs(r))
         IN  IF Fits(q) THEN q ELSE Panic

\* `k as $NUM` for a whole number k
As(k) == IF IsFloat THEN Real(k, 0, 0, 0) ELSE k

zero == As(0)
one == As(1)
two == As(2)

\* a half that rounds 0.5 to the nearest integer away from zero
half_rounded == IF IsFloat THEN Real(1, 0, 0, 1) ELSE 1

\* 0.5 as $NUM: the cast truncates to 0 for the integer types
half == IF IsFloat THEN Real(1, 0, 0, 1) ELSE 0

\* the third argument of the charmath_numeric! instance, as $NUM
NEG_SYM == IF IsFloat \/ Signed THEN As(-1) ELSE As(1)

\* the number k * pi / 4 of type f64
EighthTurns(k) == Real(0, 0, k, 2)

\* the sine of k * pi / 4, for k in 0 .. 7
SinEighth(k) ==
    CASE k \in {0, 4} -> Real(0, 0, 0, 0)
      [] k \in {1, 3} -> Real(0, 1, 0, 1)
      [] k = 2 -> Real(1, 0, 0, 0)
      [] k \in {5, 7} -> Real(0, -1, 0, 1)
      [] k = 6 -> Real(-1, 0, 0, 0)

\* a is a whole multiple of pi / 4
IsEighthTurns(a) == a # Panic /\ a # NotModelled /\ a.a = 0 /\ a.b = 0 /\ a.e <= 2

\* N::sin(a).  For f64, the sine of a multiple of pi / 4.  For the integer
\* types, $CLOSEST_FLOAT::sin(a as float) as $NUM: the sine of a whole
\* number lies strictly between -1 and 1 and the cast truncates it to 0.
sin(a) ==
    IF a = Panic THEN Panic
    ELSE IF ~IsFloat THEN 0
    ELSE IF IsEighthTurns(a) THEN SinEighth((a.p * 2 ^ (2 - a.e)) % 8)
    ELSE NotModelled

\* N::cos(a).  For f64, the cosine of a multiple of pi / 4, which is the
\* sine a quarter turn later.  For the integer types the cast truncates
\* every cosine to 0, except cos(0) = 1.
cos(a) ==
    IF a = Panic THEN Panic
    ELSE IF ~IsFloat THEN (IF a = 0 THEN 1 ELSE 0)
    ELSE IF IsEighthTurns(a) THEN SinEighth((a.p * 2 ^ (2 - a.e) + 2) % 8)
    ELSE NotModelled

neg(a) == mul(NEG_SYM, a)

\* the scalars drawn as matrix entries: the named constants of the type
Scalars == IF Signed THEN {neg(one), zero, one} ELSE {zero, one, two}

---------------------------------------------------------------------------
(* Matrices: matrix.rs.  A matrix value is [kind, mat]: kind names the     *)
(* implementing type and mat is its backing storage, a sequence of rows.   *)

\* the outcome "the call panicked", for a call that returns a matrix
NoMat == [kind |-> "panic", mat |-> <<>>]

Kinds == {"Generic", "Mat2", "Mat4"}

\* $SZ of the fixed-size types
FixedSize(kind) ==
    IF kind \in {"Mat2", "Mat2i32"} THEN 2
    ELSE IF kind = "Mat3i32" THEN 3
    ELSE 4

get_height(m) ==
    IF m.kind = "Generic" THEN Len(m.mat) ELSE FixedSize(m.kind)

\* a mutant of get_width: the number of rows is taken for the width
get_width_counts_rows(m) ==
    IF m.kind = "Generic" THEN Len(m.mat) ELSE FixedSize(m.kind)

get_width(m) ==
    IF m.kind = "Generic"
    THEN (IF Len(m.mat) = 0 THEN 0 ELSE Len(m.mat[1]))
    ELSE FixedSize(m.kind)

InBounds(m, i, j) ==
    /\ 0 <= i /\ i < Len(m.mat)
    /\ 0 <= j /\ j < Len(m.mat[i + 1])

\* *self.get_value_ref(i, j); indexing outside the storage panics
get_value_ref(m, i, j) ==
    IF InBounds(m, i, j) THEN m.mat[i + 1][j + 1] ELSE Panic

is_square(m) == get_width(m) = get_height(m)

\* A matrix under construction one of whose cells panicked was never built.
Built(m) ==
    IF \E i \in 1 .. Len(m.mat) : \E j \in 1 .. Len(m.mat[i]) : m.mat[i][j] = Panic
    THEN NoMat ELSE m

\* the cells from_flat fills: arr[i * w + j] where the array reaches, else zero
FlatCells(a, nh, nw) ==
    [i \in 1 .. nh |->
        [j \in 1 .. nw |->
            IF (i - 1) * nw + (j - 1) < Len(a)
            THEN a[(i - 1) * nw + (j - 1) + 1]
            ELSE zero]]

\* a mutant of from_flat: the row stride is the height
from_flat_stride_h(kind, a, nh, nw) ==
    [kind |-> kind,
     mat |-> [i \in 1 .. nh |->
                [j \in 1 .. nw |->
                    IF (i - 1) * nh + (j - 1) < Len(a)
                    THEN a[(i - 1) * nh + (j - 1) + 1]
                    ELSE zero]]]

\* Self::from_flat(arr, h, w) of the type `kind`
from_flat(kind, a, nh, nw) ==
    IF kind = "Generic"
    THEN [kind |-> kind, mat |-> FlatCells(a, nh, nw)]
    ELSE IF nh = FixedSize(kind) /\ nw = FixedSize(kind)
         THEN [kind |-> kind, mat |-> FlatCells(a, nh, nw)]
         ELSE NoMat

sized(nh, nw) == from_flat("Generic", <<>>, nh, nw)

---------------------------------------------------------------------------
(* The window layer: DefaultEventManager, charwin/src/window.rs.  An event *)
(* is a record [type, ...] of one of the variants of WindowEvent.  The f64 *)
(* payloads of CursorPosition and Scroll are whole numbers; the cursor     *)
(* position the manager stores is a quotient, kept as a reduced fraction.  *)

RECURSIVE GCD(_, _)
GCD(a, b) == IF b = 0 THEN a ELSE GCD(b, a % b)

\* the f64 quotient n / d of two whole numbers, d > 0
Quotient(n, d) ==
    LET g == GCD(Abs(n), d)
    IN  [n |-> n \div g, d |-> d \div g]

\* DefaultEventManager::new()
DefaultEventManager_new ==
    [mouse_pos |-> <<Quotient(0, 1), Quotient(0, 1)>>,
     keys |-> <<>>,
     mouse_buttons |-> <<>>,
     win_size |-> <<(<<0, 0>>), FALSE>>,
     win_pos |-> <<(<<0, 0>>), FALSE>>,
     focused |-> TRUE,
     cursor_on_window |-> TRUE,
     scroll_diff |-> <<0, 0>>,
     total_scroll |-> <<0, 0>>]

\* an insert that drops every other entry of the map
insert_forgetting(map, k, v) == [x \in {k} |-> v]

\* HashMap::insert(k, v)
insert(map, k, v) ==
    [x \in (DOMAIN map) \cup {k} |-> IF x = k THEN v ELSE map[x]]

\* self.key_pressed(k)
key_pressed(m, k) == IF k \in DOMAIN m.keys THEN m.keys[k] ELSE FALSE

\* self.mouse_pressed(button)
mouse_pressed(m, button) ==
    IF button \in DOMAIN m.mouse_buttons THEN m.mouse_buttons[button] ELSE FALSE

\* one round of the loop of process_events: the match on the event.  s holds
\* the manager and the locals mouse_changed and mouse_pos.
MatchEvent(s, event) ==
    LET m == s.man
    IN  CASE event.type = "Size" ->
               IF m.win_size[1] # <<event.w, event.h>>
               THEN [s EXCEPT !.man.win_size = <<(<<event.w, event.h>>), TRUE>>]
               ELSE s
          [] event.type = "CursorPosition" ->
               [s EXCEPT !.mouse_pos = <<event.x, event.y>>, !.mouse_changed = TRUE]
          [] event.type = "Position" ->
               [s EXCEPT !.man.win_pos = <<(<<event.x, event.y>>), TRUE>>]
          [] event.type = "Focus" ->
               [s EXCEPT !.man.focused = event.focused]
          [] event.type = "KeyUp" ->
               [s EXCEPT !.man.keys = insert(m.keys, event.key, FALSE)]
          [] event.type = "KeyDown" ->
               [s EXCEPT !.man.keys = insert(m.keys, event.key, TRUE)]
          [] event.type = "CursorEnter" ->
               [s EXCEPT !.man.cursor_on_window = event.cursor_on_window]
          [] event.type = "MouseButtonUp" ->
               [s EXCEPT !.man.mouse_buttons = insert(m.mouse_buttons, event.btn, FALSE)]
          [] event.type = "MouseButtonDown" ->
               [s EXCEPT !.man.mouse_buttons = insert(m.mouse_buttons, event.btn, TRUE)]
          [] event.type = "Scroll" ->
               [s EXCEPT !.man.scroll_diff = <<event.x, event.y>>,
                         !.man.total_scroll = <<m.total_scroll[1] + event.x,
                                                m.total_scroll[2] + event.y>>]
          [] OTHER -> s

RECURSIVE EventLoop_keeping(_, _, _)
\* a loop that starts from the manager as the batch before left it
EventLoop_keeping(m, events, i) ==
    IF i = 0
    THEN [man |-> m, mouse_changed |-> FALSE, mouse_pos |-> <<0, 0>>]
    ELSE MatchEvent(EventLoop_keeping(m, events, i - 1), events[i])

RECURSIVE EventLoop(_, _, _)
\* the manager and the locals after the first i events of the batch
EventLoop(m, events, i) ==
    IF i = 0
    THEN [man |-> [m EXCEPT !.scroll_diff = <<0, 0>>,
                            !.win_pos[2] = FALSE,
                            !.win_size[2] = FALSE],
          mouse_changed |-> FALSE,
          mouse_pos |-> <<0, 0>>]
    ELSE MatchEvent(EventLoop(m, events, i - 1), events[i])

\* self.process_events(&events): the resets, the loop, the cursor position
process_events(m, events) ==
    LET s == EventLoop(m, events, Len(events))
        size == s.man.win_size[1]
    IN  IF s.mouse_changed /\ size[1] > 0 /\ size[2] > 0
        THEN [s.man EXCEPT !.mouse_pos = <<Quotient(s.mouse_pos[1], size[1]),
                                           Quotient(s.mouse_pos[2], size[2])>>]
        ELSE s.man

---------------------------------------------------------------------------
(* The harness of from_flat.                                               *)

\* the flat arrays of at most n scalars
Arrays(n) == UNION {[1 .. k -> Scalars] : k \in 0 .. n}

NoCall == [fn |-> "none", args |-> <<>>]

InitFlat ==
    /\ NoApp
    /\ N \in Types
    /\ overflow_checks \in BOOLEAN
    /\ call = NoCall
    /\ arr \in Arrays(MaxLen)
    /\ h \in 0 .. MaxDim
    /\ w \in 0 .. MaxDim
    /\ self = NoMat
    /\ rhs = NoMat
    /\ num = 0
    /\ vec = <<>>
    /\ other = <<>>
    /\ man = DefaultEventManager_new
    /\ processed = <<>>
    /\ ret = NoMat

\* let mat = GenericMatrix::<N>::from_flat(&arr, h, w)
CallFromFlat ==
    /\ call = NoCall
    /\ ret' = from_flat("Generic", arr, h, w)
    /\ call' = [fn |-> "from_flat", args |-> <<>>]
    /\ UNCHANGED <<pc, log, window, threads, textures, N, overflow_checks, arr, h, w, self, rhs, num, vec, other,
                   man, processed>>

NextFlat == CallFromFlat

SpecFlat == InitFlat /\ [][NextFlat]_vars

\* C1 as claimed: from_flat(arr, h, w) has get_height() = h and
\* get_width() = w for every h >= 0 and w >= 0.
C1_DimsAsRequested ==
    call.fn = "from_flat" => get_height(ret) = h /\ get_width(ret) = w

\* C1, amended: from_flat(arr, h, w) has get_height() = h; its get_width()
\* is w when h >= 1, and 0 when h = 0 (a matrix without rows stores no width).
C1_DimsFromStorage ==
    call.fn = "from_flat" =>
        /\ get_height(ret) = h
        /\ get_width(ret) = IF h = 0 THEN 0 ELSE w

\* a non-square matrix was built from an array shorter than h * w
C1_Witness ==
    /\ call.fn = "from_flat"
    /\ h = 2 /\ w = 1 /\ Len(arr) = 1
    /\ get_height(ret) = 2 /\ get_width(ret) = 1

Min(i, j) == IF i < j THEN i ELSE j

\* C2: from_flat never panics on a length mismatch; cell (i, j) of the
\* result is arr[i * w + j] where i * w + j < len(arr) and zero elsewhere,
\* and the elements of arr from position h * w on are ignored.
C2_PadAndTruncate ==
    call.fn = "from_flat" =>
        /\ ret # NoMat
        /\ \A i \in 0 .. h - 1 : \A j \in 0 .. w - 1 :
              get_value_ref(ret, i, j) =
                  IF i * w + j < Len(arr) THEN arr[i * w + j + 1] ELSE zero
        /\ ret = from_flat("Generic", SubSeq(arr, 1, Min(Len(arr), h * w)), h, w)

\* a 2 x 1 matrix was built from three elements: the second cell comes from
\* the array, the third element is dropped
C2_Witness ==
    /\ call.fn = "from_flat"
    /\ h = 2 /\ w = 1 /\ Len(arr) = 3
    /\ arr[2] # 0 /\ arr[3] # 0
    /\ ret.mat = <<(<<arr[1]>>), (<<arr[2]>>)>>


---------------------------------------------------------------------------
(* Matrix::mul_mat.                                                        *)

\* a mutant of the assertion of mul_mat: the standard rule, self.width == rhs.height
MulMatAssert_standard_rule(m, r) == get_width(m) = get_height(r)

\* the condition mul_mat asserts
MulMatAssert(m, r) ==
    get_width(m) = get_height(r) /\ get_height(m) = get_width(r)

RECURSIVE MulCell_rhs_transposed(_, _, _, _, _, _)
\* a mutant of the innermost loop of mul_mat: the right operand is read as rhs[x][i]
MulCell_rhs_transposed(m, r, v0, y, c, i) ==
    IF i = 0 THEN v0
    ELSE add(MulCell_rhs_transposed(m, r, v0, y, c, i - 1),
             mul(get_value_ref(m, y, i - 1), get_value_ref(r, c, i - 1)))

RECURSIVE MulCell(_, _, _, _, _, _)
\* ret[y][c] after i rounds of the innermost loop, from its initial value v0:
\* *ret.get_value_ref_mut(y, x) += self[y][i] * rhs[i][x]
MulCell(m, r, v0, y, c, i) ==
    IF i = 0 THEN v0
    ELSE add(MulCell(m, r, v0, y, c, i - 1),
             mul(get_value_ref(m, y, i - 1), get_value_ref(r, i - 1, c)))

\* self.mul_mat(&rhs): the assertion, then the triple loop over a zero matrix
mul_mat(m, r) ==
    IF ~MulMatAssert(m, r) THEN NoMat
    ELSE LET ret0 == from_flat(m.kind, <<>>, get_height(m), get_width(r))
         IN  IF ret0 = NoMat THEN NoMat
             ELSE Built([kind |-> m.kind,
                         mat |-> [y \in 1 .. get_height(ret0) |->
                                   [c \in 1 .. get_width(ret0) |->
                                      MulCell(m, r, get_value_ref(ret0, y - 1, c - 1),
                                              y - 1, c - 1, get_width(m))]]])

\* the matrices from_flat builds from at most len scalars, of every type
\* whose size is at most dim
InputMats(dim, len) ==
    {from_flat(k, a, nh, nw) :
        k \in Kinds, a \in Arrays(len), nh \in 0 .. dim, nw \in 0 .. dim} \ {NoMat}

InitMul ==
    /\ NoApp
    /\ N \in Types
    /\ overflow_checks \in BOOLEAN
    /\ call = NoCall
    /\ arr = <<>>
    /\ h = 0
    /\ w = 0
    /\ self \in InputMats(MaxMulDim, MaxMulLen)
    /\ rhs \in InputMats(MaxMulDim, MaxMulLen)
    /\ num = 0
    /\ vec = <<>>
    /\ other = <<>>
    /\ man = DefaultEventManager_new
    /\ processed = <<>>
    /\ ret = NoMat

\* let ret = self.mul_mat(&rhs)
CallMulMat ==
    /\ call = NoCall
    /\ ret' = mul_mat(self, rhs)
    /\ call' = [fn |-> "mul_mat", args |-> <<>>]
    /\ UNCHANGED <<pc, log, window, threads, textures, N, overflow_checks, arr, h, w, self, rhs, num, vec, other,
                   man, processed>>

NextMul == CallMulMat

SpecMul == InitMul /\ [][NextMul]_vars

Conformable(m, r) ==
    get_width(m) = get_height(r) /\ get_height(m) = get_width(r)

\* C3: mul_mat panics whenever the operands are not conformable
\* (self.width == rhs.height and self.height == rhs.width) and returns a
\* matrix whenever they are.
C3_PanicsIffNotConformable ==
    call.fn = "mul_mat" => ((ret = NoMat) <=> ~Conformable(self, rhs))

\* a 1 x 2 matrix was multiplied by a 2 x 2 matrix: the standard rule
\* would accept the pair, mul_mat panicked
C3_Witness ==
    /\ call.fn = "mul_mat"
    /\ get_height(self) = 1 /\ get_width(self) = 2
    /\ get_height(rhs) = 2 /\ get_width(rhs) = 2
    /\ ret = NoMat

RECURSIVE SumTo(_, _, _, _, _)
\* the mathematical sum over k < i of self[y][k] * rhs[k][c]
SumTo(m, r, y, c, i) ==
    IF i = 0 THEN 0
    ELSE SumTo(m, r, y, c, i - 1) + m.mat[y + 1][i] * r.mat[i][c + 1]

\* C4: for conformable operands mul_mat returns a new matrix of height
\* self.height and width rhs.width whose cell (y, x) is the sum over
\* i < self.width of self[y][i] * rhs[i][x].
C4_ProductCells ==
    (call.fn = "mul_mat" /\ Conformable(self, rhs)) =>
        /\ ret # NoMat
        /\ get_height(ret) = get_height(self)
        /\ get_width(ret) = get_width(rhs)
        /\ \A y \in 0 .. get_height(self) - 1 : \A c \in 0 .. get_width(rhs) - 1 :
              get_value_ref(ret, y, c) = SumTo(self, rhs, y, c, get_width(self))

\* a 2 x 1 matrix times a 1 x 2 matrix gave a 2 x 2 matrix with a nonzero
\* cell in its second row
C4_Witness ==
    /\ call.fn = "mul_mat"
    /\ get_height(self) = 2 /\ get_width(self) = 1
    /\ get_height(rhs) = 1 /\ get_width(rhs) = 2
    /\ ret # NoMat
    /\ get_value_ref(ret, 1, 0) # 0 /\ get_value_ref(ret, 0, 1) = 0

---------------------------------------------------------------------------
(* Matrix::num_operand and the SquareMatrix algorithms.                    *)

\* self.div_num(n): num_operand with |l, r| l / r on every cell of a copy
div_num(m, n) ==
    Built([kind |-> m.kind,
           mat |-> [i \in 1 .. Len(m.mat) |->
                     [j \in 1 .. Len(m.mat[i]) |-> div(m.mat[i][j], n)]]])

\* a mutant of get_size: the assertion is missing
get_size_unchecked(m) == get_height(m)

\* self.get_size(): asserts is_square(), then the height
get_size(m) == IF is_square(m) THEN get_height(m) ELSE Panic

RECURSIVE CofactorLoop(_, _, _, _, _)
\* get_cofactor's ret, i and j after the first k cells of the row-major scan
\* of the leading n x n block; ret is NoMat once an index was out of bounds
CofactorLoop(m, p, q, n, k) ==
    IF k = 0 THEN [ret |-> m, i |-> 0, j |-> 0]
    ELSE LET s == CofactorLoop(m, p, q, n, k - 1)
             row == (k - 1) \div n
             col == (k - 1) % n
         IN  IF s.ret = NoMat \/ ~(row # p /\ col # q) THEN s
             ELSE IF ~InBounds(s.ret, s.i, s.j) \/ ~InBounds(m, row, col)
             THEN [ret |-> NoMat, i |-> s.i, j |-> s.j]
             ELSE [ret |-> [s.ret EXCEPT !.mat[s.i + 1][s.j + 1] =
                                             m.mat[row + 1][col + 1]],
                   i |-> IF s.j + 1 = n - 1 THEN s.i + 1 ELSE s.i,
                   j |-> IF s.j + 1 = n - 1 THEN 0 ELSE s.j + 1]

\* a get_cofactor that deletes row p only and keeps every column
get_cofactor_keeps_column(m, p, q, n) ==
    IF get_size(m) = Panic THEN NoMat
    ELSE CofactorLoop(m, p, n, n, n * n).ret

\* self.get_cofactor(p, q, n): a copy of self whose leading cells are
\* overwritten with the cells of the n x n block outside row p and column q
get_cofactor(m, p, q, n) ==
    IF get_size(m) = Panic THEN NoMat
    ELSE CofactorLoop(m, p, q, n, n * n).ret

RECURSIVE determinant_recursive(_, _)
RECURSIVE DetLoop(_, _, _)
\* det and sign of determinant_recursive(n) after i rounds of its loop
DetLoop(m, n, i) ==
    IF i = 0 THEN [det |-> zero, sign |-> one]
    ELSE LET s == DetLoop(m, n, i - 1)
             cof == get_cofactor(m, 0, i - 1, n)
             minor == IF cof = NoMat THEN Panic
                      ELSE determinant_recursive(cof, n - 1)
         IN  [det |-> add(s.det,
                          mul(mul(s.sign, get_value_ref(m, 0, i - 1)), minor)),
              sign |-> neg(s.sign)]

\* self.determinant_recursive(n)
determinant_recursive(m, n) ==
    IF get_size(m) = Panic THEN Panic
    ELSE IF n = 1 THEN get_value_ref(m, 0, 0)
    ELSE IF n = 2
    THEN sub(mul(get_value_ref(m, 0, 0), get_value_ref(m, 1, 1)),
             mul(get_value_ref(m, 0, 1), get_value_ref(m, 1, 0)))
    ELSE LET s == DetLoop(m, n, n)
         IN  IF s.sign = Panic THEN Panic ELSE s.det

\* self.determinant()
determinant(m) ==
    IF get_size(m) = Panic THEN Panic
    ELSE determinant_recursive(m, get_size(m))

\* the value adjoint stores at cell (j, i)
AdjointCell(m, i, j) ==
    LET sign == IF (i + j) % 2 = 0 THEN one ELSE neg(one)
        cofactor == get_cofactor(m, i, j, get_size(m))
    IN  mul(sign, IF cofactor = NoMat THEN Panic
                  ELSE determinant_recursive(cofactor, get_size(m) - 1))

\* self.adjoint(): every cell (j, i) of a copy of self is overwritten
adjoint(m) ==
    IF get_size(m) = Panic THEN NoMat
    ELSE Built([kind |-> m.kind,
                mat |-> [r \in 1 .. get_size(m) |->
                          [c \in 1 .. get_size(m) |-> AdjointCell(m, c - 1, r - 1)]]])

\* SquareMatrix::inverse, the default: self.adjoint().div_num(self.determinant())
SquareMatrix_inverse(m) ==
    LET adj == adjoint(m)
    IN  IF adj = NoMat THEN NoMat
        ELSE LET det == determinant(m)
             IN  IF det = Panic THEN NoMat ELSE div_num(adj, det)

\* the last row of Mat4::inverse: minus the dot product of the translation
\* with column k of the transposed block
Mat4_inverse_row3(m, t, k) ==
    neg(add(add(mul(m[4][1], t[1][k]), mul(m[4][2], t[2][k])), mul(m[4][3], t[3][k])))

\* a mutant of Mat4::inverse: the 3 x 3 block is copied, not transposed
Mat4_inverse_no_transpose(m) ==
    LET s == m.mat
        t == <<(<<s[1][1], s[1][2], s[1][3], zero>>),
               (<<s[2][1], s[2][2], s[2][3], zero>>),
               (<<s[3][1], s[3][2], s[3][3], zero>>)>>
    IN  Built([kind |-> "Mat4",
               mat |-> <<t[1], t[2], t[3],
                         (<<Mat4_inverse_row3(s, t, 1), Mat4_inverse_row3(s, t, 2),
                            Mat4_inverse_row3(s, t, 3), one>>)>>])

\* Mat4::inverse, the override: the 3 x 3 block transposed, the last column
\* (0, 0, 0, 1), the last row from the translation
Mat4_inverse(m) ==
    LET s == m.mat
        t == <<(<<s[1][1], s[2][1], s[3][1], zero>>),
               (<<s[1][2], s[2][2], s[3][2], zero>>),
               (<<s[1][3], s[2][3], s[3][3], zero>>)>>
    IN  Built([kind |-> "Mat4",
               mat |-> <<t[1], t[2], t[3],
                         (<<Mat4_inverse_row3(s, t, 1), Mat4_inverse_row3(s, t, 2),
                            Mat4_inverse_row3(s, t, 3), one>>)>>])

\* a mutant of inverse: Mat4 uses the default of the trait as well
inverse_default_for_all(m) == SquareMatrix_inverse(m)

\* self.inverse(), dispatched on the type of self
inverse(m) ==
    IF m.kind = "Mat4" THEN Mat4_inverse(m) ELSE SquareMatrix_inverse(m)

\* a mutant of identity: the loop stops one short of the last diagonal cell
identity_short_loop(size) ==
    [kind |-> "Generic",
     mat |-> [i \in 1 .. size |->
               [j \in 1 .. size |-> IF i = j /\ i < size THEN one ELSE zero]]]

\* matrices::identity(size): sized(size, size) with one on the diagonal
identity(size) ==
    [kind |-> "Generic",
     mat |-> [i \in 1 .. size |->
               [j \in 1 .. size |->
                  IF i = j THEN one ELSE get_value_ref(sized(size, size), i - 1, j - 1)]]]

---------------------------------------------------------------------------
(* The harness of the square-matrix calls: self is a matrix built by       *)
(* from_flat, or replaced by identity(n); then one call on it.             *)

InitSquare ==
    /\ NoApp
    /\ N \in Types
    /\ overflow_checks \in BOOLEAN
    /\ call = NoCall
    /\ arr = <<>>
    /\ h = 0
    /\ w = 0
    /\ self \in InputMats(MaxSqDim, MaxSqLen)
    /\ rhs = NoMat
    /\ num = 0
    /\ vec = <<>>
    /\ other = <<>>
    /\ man = DefaultEventManager_new
    /\ processed = <<>>
    /\ ret = NoMat

Fresh == call.fn \in {"none", "identity"}

\* let self = matrices::identity::<N>(n)
CallIdentity ==
    /\ call = NoCall
    /\ \E n \in 1 .. MaxIdentity :
          /\ self' = identity(n)
          /\ call' = [fn |-> "identity", args |-> <<n>>]
    /\ UNCHANGED <<pc, log, window, threads, textures, N, overflow_checks, arr, h, w, rhs, num, vec, other,
                   man, processed, ret>>

\* let ret = self.determinant()
CallDeterminant ==
    /\ Fresh
    /\ ret' = determinant(self)
    /\ call' = [fn |-> "determinant", args |-> <<>>]
    /\ UNCHANGED <<pc, log, window, threads, textures, N, overflow_checks, arr, h, w, self, rhs, num, vec, other,
                   man, processed>>

\* let ret = self.adjoint()
CallAdjoint ==
    /\ Fresh
    /\ ret' = adjoint(self)
    /\ call' = [fn |-> "adjoint", args |-> <<>>]
    /\ UNCHANGED <<pc, log, window, threads, textures, N, overflow_checks, arr, h, w, self, rhs, num, vec, other,
                   man, processed>>

\* let ret = self.inverse()
CallInverse ==
    /\ Fresh
    /\ ret' = inverse(self)
    /\ call' = [fn |-> "inverse", args |-> <<>>]
    /\ UNCHANGED <<pc, log, window, threads, textures, N, overflow_checks, arr, h, w, self, rhs, num, vec, other,
                   man, processed>>

\* let ret = self.get_cofactor(p, q, n)
CallGetCofactor ==
    /\ Fresh
    /\ \E p \in 0 .. MaxSqDim - 1, q \in 0 .. MaxSqDim - 1, n \in 1 .. MaxSqDim :
          /\ ret' = get_cofactor(self, p, q, n)
          /\ call' = [fn |-> "get_cofactor", args |-> <<p, q, n>>]
    /\ UNCHANGED <<pc, log, window, threads, textures, N, overflow_checks, arr, h, w, self, rhs, num, vec, other,
                   man, processed>>

NextSquare ==
    \/ CallIdentity
    \/ CallDeterminant
    \/ CallAdjoint
    \/ CallInverse
    \/ CallGetCofactor

SpecSquare == InitSquare /\ [][NextSquare]_vars

\* m is square of size n >= 1 (as a predicate for the claims)
SquareOf(m, n) == get_height(m) = n /\ get_width(m) = n /\ n >= 1

\* the n x n grid with d on the diagonal and 0 elsewhere
Diagonal(n, d) == [i \in 1 .. n |-> [j \in 1 .. n |-> IF i = j THEN d ELSE 0]]

\* C5 as claimed: for every square matrix M of size n >= 1 whose determinant
\* is +1 or -1, of every square matrix type, M.mul_mat(M.inverse()) is
\* identity(n).
C5_InverseRoundTrip ==
    (call.fn = "inverse" /\ SquareOf(self, get_height(self))
                         /\ determinant(self) \in {1, -1}) =>
        /\ ret # NoMat
        /\ mul_mat(self, ret).mat = Diagonal(get_height(self), 1)

\* C6 as claimed: for every square matrix M of size n >= 1,
\* M.mul_mat(M.adjoint()) is identity(n) scaled by M.determinant().
C6_AdjointRelation ==
    (call.fn = "adjoint" /\ SquareOf(self, get_height(self))) =>
        /\ ret # NoMat
        /\ mul_mat(self, ret).mat = Diagonal(get_height(self), determinant(self))

\* C8: identity(n) has one on the diagonal and zero elsewhere, and its
\* determinant is 1, for every n >= 1 and for signed and unsigned scalars.
C8_IdentityDeterminant ==
    /\ call.fn = "identity" =>
          self = [kind |-> "Generic", mat |-> Diagonal(call.args[1], 1)]
    /\ (call.fn = "determinant"
          /\ \E n \in 1 .. MaxIdentity : self.mat = Diagonal(n, 1)) => ret = 1

\* the determinant of the 4 x 4 identity over an unsigned scalar was taken
C8_Witness ==
    /\ call.fn = "determinant"
    /\ N = "u8"
    /\ self = [kind |-> "Generic", mat |-> Diagonal(4, 1)]
    /\ ret = 1

\* C9: determinant(), adjoint(), inverse() and get_cofactor() on a matrix
\* with width # height panic and return no value.
C9_NonSquarePanics ==
    (get_width(self) # get_height(self)) =>
        /\ call.fn = "determinant" => ret = Panic
        /\ call.fn \in {"adjoint", "inverse", "get_cofactor"} => ret = NoMat

\* get_cofactor was called on a 2 x 3 matrix whose leading 2 x 2 block it
\* could have read, and panicked
C9_Witness ==
    /\ call.fn = "get_cofactor"
    /\ call.args = <<0, 0, 2>>
    /\ get_height(self) = 2 /\ get_width(self) = 3
    /\ ret = NoMat

\* get_cofactor(p, q, n) was called on a square matrix with p, q < n <= size
CofactorInRange ==
    /\ call.fn = "get_cofactor"
    /\ is_square(self)
    /\ call.args[3] <= get_height(self)
    /\ call.args[1] < call.args[3]
    /\ call.args[2] < call.args[3]

\* the cell (i, j) of the leading n x n block of m with row p and column q
\* deleted
MinorCell(m, p, q, i, j) ==
    get_value_ref(m, IF i < p THEN i ELSE i + 1, IF j < q THEN j ELSE j + 1)

\* C21 as stated: get_cofactor(p, q, n) returns a matrix of height n - 1 and
\* width n - 1 whose cells are those of the leading n x n block of self with
\* row p and column q deleted.
C21_CofactorIsMinor ==
    CofactorInRange =>
        LET p == call.args[1]
            q == call.args[2]
            n == call.args[3]
        IN  /\ ret # NoMat
            /\ get_height(ret) = n - 1
            /\ get_width(ret) = n - 1
            /\ \A i \in 0 .. n - 2 : \A j \in 0 .. n - 2 :
                  get_value_ref(ret, i, j) = MinorCell(self, p, q, i, j)

\* C21: for p, q < n <= size, get_cofactor(p, q, n) returns a matrix of the
\* type and the dimensions of self; its leading (n - 1) x (n - 1) block
\* holds the cells of the leading n x n block of self with row p and column
\* q deleted, in row-major order, and every other cell is the cell of self.
C21_CofactorPackedInCopy ==
    CofactorInRange =>
        LET p == call.args[1]
            q == call.args[2]
            n == call.args[3]
        IN  /\ ret # NoMat
            /\ ret.kind = self.kind
            /\ get_height(ret) = get_height(self)
            /\ get_width(ret) = get_width(self)
            /\ \A i \in 0 .. get_height(self) - 1 : \A j \in 0 .. get_width(self) - 1 :
                  get_value_ref(ret, i, j) =
                      IF i < n - 1 /\ j < n - 1 THEN MinorCell(self, p, q, i, j)
                      ELSE get_value_ref(self, i, j)

\* get_cofactor(1, 1, 3) of the 3 x 3 matrix with rows (1, 0, -1), (1, 0, 0),
\* (0, 0, 0): the minor (1, -1), (0, 0) is packed into the leading block and
\* the cell (0, 2) is left as it was
C21_Witness ==
    /\ call.fn = "get_cofactor"
    /\ call.args = <<1, 1, 3>>
    /\ N = "i8"
    /\ self = [kind |-> "Generic", mat |-> <<<<1, 0, -1>>, <<1, 0, 0>>, <<0, 0, 0>>>>]
    /\ ret = [kind |-> "Generic", mat |-> <<<<1, -1, -1>>, <<0, 0, 0>>, <<0, 0, 0>>>>]

---------------------------------------------------------------------------
(* The harness of Mat4::inverse on rigid transforms in row-vector form:    *)
(* an orthonormal 3 x 3 block (over the integers, a signed permutation),   *)
(* last column (0, 0, 0, 1), the translation in the last row.              *)

\* the permutations of 1 .. 3
Perms3 == {f \in [1 .. 3 -> 1 .. 3] : \A i, j \in 1 .. 3 : f[i] = f[j] => i = j}

\* the rigid transform with block row i = sgn[i] * e(perm[i]) and translation t,
\* built as look_at_3d builds its result: Mat4::from_flat of sixteen scalars
Rigid(perm, sgn, t) ==
    LET row(i) == [j \in 1 .. 4 |-> IF j = perm[i] THEN sgn[i] ELSE zero]
    IN  from_flat("Mat4", row(1) \o row(2) \o row(3) \o <<t[1], t[2], t[3], one>>, 4, 4)

InitRigid ==
    /\ NoApp
    /\ N = "i8"
    /\ overflow_checks \in BOOLEAN
    /\ call = NoCall
    /\ arr = <<>>
    /\ h = 0
    /\ w = 0
    /\ \E perm \in Perms3, sgn \in [1 .. 3 -> {one, neg(one)}],
          t \in [1 .. 3 -> -MaxT .. MaxT] : self = Rigid(perm, sgn, t)
    /\ rhs = NoMat
    /\ num = 0
    /\ vec = <<>>
    /\ other = <<>>
    /\ man = DefaultEventManager_new
    /\ processed = <<>>
    /\ ret = NoMat

NextRigid == CallInverse

SpecRigid == InitRigid /\ [][NextRigid]_vars

\* C7: for every Mat4 M that is a rigid transform in row-vector form,
\* Mat4::inverse() returns the true inverse, M.mul_mat(M.inverse()) is
\* identity(4), and the result equals the cofactor-based inverse
\* adjoint() / determinant() of M.
C7_RigidInverse ==
    call.fn = "inverse" =>
        /\ ret # NoMat
        /\ mul_mat(self, ret).mat = Diagonal(4, 1)
        /\ ret = SquareMatrix_inverse(self)

\* a rotation that is not its own transpose, with a reflection and a
\* nonzero translation, was inverted
C7_Witness ==
    /\ call.fn = "inverse"
    /\ self.mat = <<(<<0, 1, 0, 0>>), (<<0, 0, -1, 0>>), (<<1, 0, 0, 0>>),
                    (<<1, -1, 1, 1>>)>>
    /\ ret.mat = <<(<<0, 0, 1, 0>>), (<<1, 0, 0, 0>>), (<<0, -1, 0, 0>>),
                   (<<1, 1, -1, 1>>)>>

---------------------------------------------------------------------------
(* The harness of the scalar calls.                                        *)

InitNum ==
    /\ NoApp
    /\ N \in Types
    /\ overflow_checks \in BOOLEAN
    /\ call = NoCall
    /\ arr = <<>>
    /\ h = 0
    /\ w = 0
    /\ self = NoMat
    /\ rhs = NoMat
    /\ num \in MinOf .. MaxOf
    /\ vec = <<>>
    /\ other = <<>>
    /\ man = DefaultEventManager_new
    /\ processed = <<>>
    /\ ret = NoMat

\* let ret = N::neg(num)
CallNeg ==
    /\ call = NoCall
    /\ ret' = neg(num)
    /\ call' = [fn |-> "neg", args |-> <<num>>]
    /\ UNCHANGED <<pc, log, window, threads, textures, N, overflow_checks, arr, h, w, self, rhs, num, vec, other,
                   man, processed>>

NextNum == CallNeg

SpecNum == InitNum /\ [][NextNum]_vars

\* C10 as claimed: for an unsigned scalar type neg(a) panics when a # 0 and
\* returns 0 when a = 0.
C10_UnsignedNegPanics ==
    (call.fn = "neg" /\ ~Signed) => ret = IF num # 0 THEN Panic ELSE 0

---------------------------------------------------------------------------
(* The harness of inverse() on matrices of every square type, the 4 x 4    *)
(* type included: a Mat4 built from a short flat array has zero rows and   *)
(* so a zero determinant.                                                  *)

\* largest height and width of a GenericMatrix receiver of inverse()
MaxSingDim == 2
\* longest flat array a receiver of inverse() is built from
MaxSingLen == 4

InitSingular ==
    /\ NoApp
    /\ N \in Types
    /\ overflow_checks \in BOOLEAN
    /\ call = NoCall
    /\ arr = <<>>
    /\ h = 0
    /\ w = 0
    /\ self \in InputMats(MaxSingDim, MaxSingLen)
                   \cup {from_flat("Mat4", a, 4, 4) : a \in Arrays(MaxSingLen)}
    /\ rhs = NoMat
    /\ num = 0
    /\ vec = <<>>
    /\ other = <<>>
    /\ man = DefaultEventManager_new
    /\ processed = <<>>
    /\ ret = NoMat

NextSingular == CallInverse

SpecSingular == InitSingular /\ [][NextSingular]_vars

\* self is square with a zero determinant, and inverse() has returned
SingularInverted ==
    call.fn = "inverse" /\ is_square(self) /\ determinant(self) = 0

\* C11 as claimed: inverse() of a square matrix (of size n >= 1) whose
\* determinant is 0 panics and never returns a matrix, for GenericMatrix,
\* Mat2 and Mat4.
C11_SingularAlwaysFaults ==
    (SingularInverted /\ get_size(self) >= 1) => ret = NoMat

\* C11, amended: inverse() of a GenericMatrix of size n >= 1 or of a Mat2
\* whose determinant is 0 panics and returns no matrix; Mat4::inverse() never
\* divides: for a Mat4 with zero determinant it returns a matrix whose
\* leading 3 x 3 block is the transpose of the receiver's.
C11_SingularFaultsOrTransposes ==
    SingularInverted =>
        IF self.kind = "Mat4"
        THEN /\ ret # NoMat
             /\ \A i \in 0 .. 2 : \A j \in 0 .. 2 :
                   get_value_ref(ret, i, j) = get_value_ref(self, j, i)
        ELSE get_size(self) >= 1 => ret = NoMat

\* a Mat2 with two equal nonzero rows was inverted, and the call panicked
C11_Witness ==
    /\ call.fn = "inverse"
    /\ self.kind = "Mat2"
    /\ self.mat[1] = self.mat[2] /\ self.mat[1][1] # 0 /\ self.mat[1][2] # 0
    /\ ret = NoMat

---------------------------------------------------------------------------
(* Vectors: charmath/src/linear/vector.rs.  A vector value is its backing  *)
(* array `vec`, a sequence of 2, 3 or 4 scalars.                           *)

\* the outcome "the call panicked", for a call that returns a vector
NoVec == <<Panic>>

\* the $LEN of define_vec2!, define_vec3! and define_vec4!
Arities == {2, 3, 4}

\* A vector under construction one of whose components panicked was never built.
VBuilt(v) == IF \E i \in 1 .. Len(v) : v[i] = Panic THEN NoVec ELSE v

\* $CLASS::new_arr(arr) of the vector type of $SIZE components
new_arr(size, a) == [i \in 1 .. size |-> IF i - 1 < Len(a) THEN a[i] ELSE zero]

\* self.cm_copy()
cm_copy(v) == new_arr(Len(v), v)

\* operand(l, r), for the closure the vector operations hand down:
\* |a, b| a + b, a - b, a / b or a * b
call_operand(operand, l, r) ==
    CASE operand = "add" -> add(l, r)
      [] operand = "sub" -> sub(l, r)
      [] operand = "div" -> div(l, r)
      [] operand = "mul" -> mul(l, r)

\* vector_utils::parallel_arr_op(a, b, c, operand): c as it is left
parallel_arr_op(a, b, c, operand) ==
    IF ~(Len(a) = Len(b) /\ Len(a) = Len(c)) THEN NoVec
    ELSE VBuilt([i \in 1 .. Len(c) |-> call_operand(operand, a[i], b[i])])

\* vector_utils::single_arr_op(a, b, val, operand): b as it is left
single_arr_op(a, b, val, operand) ==
    IF Len(a) # Len(b) THEN NoVec
    ELSE VBuilt([i \in 1 .. Len(b) |-> call_operand(operand, a[i], val)])

RECURSIVE DotLoop(_, _, _)
\* ret of array_dot after i rounds: ret = ret + (a[i] * b[i])
DotLoop(a, b, i) ==
    IF i = 0 THEN zero
    ELSE add(DotLoop(a, b, i - 1), mul(a[i], b[i]))

\* vector_utils::array_dot(a, b)
array_dot(a, b) == IF Len(a) # Len(b) THEN Panic ELSE DotLoop(a, b, Len(a))

\* N::sqrt(a) of an integer type: $CLOSEST_FLOAT::sqrt(a as float) as $NUM.
\* The root of a negative number is NaN, which the cast turns into 0; the
\* cast truncates every other root.
sqrt(a) ==
    IF a = Panic THEN Panic
    ELSE IF a < 0 THEN 0
    ELSE CHOOSE r \in 0 .. 2 ^ (Bits \div 2) : r * r <= a /\ a < (r + 1) * (r + 1)

\* self.num_op(other, operand)
num_op(v, val, operand) == single_arr_op(v, cm_copy(v), val, operand)

\* self.vec_op(other, operand)
vec_op(v, o, operand) == parallel_arr_op(v, o, cm_copy(v), operand)

add_vec(v, o) == vec_op(v, o, "add")
\* a mutant of sub_vec: the operands are exchanged
sub_vec_exchanged(v, o) == vec_op(o, v, "sub")

sub_vec(v, o) == vec_op(v, o, "sub")
div_vec(v, o) == vec_op(v, o, "div")
mul_vec(v, o) == vec_op(v, o, "mul")
add_num(v, val) == num_op(v, val, "add")
sub_num(v, val) == num_op(v, val, "sub")
\* Vector::div_num
Vector_div_num(v, val) == num_op(v, val, "div")
\* a mutant of mul_num: the scalar is added
mul_num_adds(v, val) == num_op(v, val, "add")

mul_num(v, val) == num_op(v, val, "mul")

\* self.dot(other)
dot(v, o) == array_dot(v, o)

\* self.len()
len(v) == sqrt(array_dot(v, v))

\* self.normalized(): self.div_num(self.len())
normalized(v) ==
    IF len(v) = Panic THEN NoVec ELSE Vector_div_num(v, len(v))

---------------------------------------------------------------------------
(* The harness of the vector calls: a receiver built by new_arr, and one   *)
(* call on it, whose operand is a vector of the same type or a scalar.     *)

\* longest array the receiver of a vector call is built from
MaxVecLen == 3
\* longest array the operand of a vector call is built from
MaxOtherLen == 1

\* the scalars drawn as vector components: the named constants of the type
\* and its extreme values N::MIN and N::MAX
VecScalars ==
    IF Signed THEN {MinOf, neg(one), zero, two, MaxOf} ELSE {zero, one, two, MaxOf}

\* the vectors of `size` components new_arr builds from at most n scalars
Vectors(size, n) ==
    {new_arr(size, a) : a \in UNION {[1 .. k -> VecScalars] : k \in 0 .. n}}

InitVec ==
    /\ NoApp
    /\ N \in Types
    /\ overflow_checks \in BOOLEAN
    /\ call = NoCall
    /\ arr = <<>>
    /\ h = 0
    /\ w = 0
    /\ self = NoMat
    /\ rhs = NoMat
    /\ num = 0
    /\ \E size \in Arities : vec \in Vectors(size, MaxVecLen)
    /\ other = <<>>
    /\ man = DefaultEventManager_new
    /\ processed = <<>>
    /\ ret = NoMat

VecOps == {"add_vec", "sub_vec", "mul_vec", "div_vec"}
NumOps == {"add_num", "sub_num", "mul_num", "div_num"}

\* let ret = vec.add_vec(&other), and likewise sub_vec, mul_vec, div_vec
CallVecOp(fn) ==
    /\ call = NoCall
    /\ \E o \in Vectors(Len(vec), MaxOtherLen) :
          /\ other' = o
          /\ ret' = CASE fn = "add_vec" -> add_vec(vec, o)
                      [] fn = "sub_vec" -> sub_vec(vec, o)
                      [] fn = "mul_vec" -> mul_vec(vec, o)
                      [] fn = "div_vec" -> div_vec(vec, o)
    /\ call' = [fn |-> fn, args |-> <<>>]
    /\ UNCHANGED <<pc, log, window, threads, textures, N, overflow_checks, arr, h, w, self, rhs, num, vec,
                   man, processed>>

\* let ret = vec.add_num(num), and likewise sub_num, mul_num, div_num
CallNumOp(fn) ==
    /\ call = NoCall
    /\ \E s \in VecScalars :
          /\ num' = s
          /\ ret' = CASE fn = "add_num" -> add_num(vec, s)
                      [] fn = "sub_num" -> sub_num(vec, s)
                      [] fn = "mul_num" -> mul_num(vec, s)
                      [] fn = "div_num" -> Vector_div_num(vec, s)
    /\ call' = [fn |-> fn, args |-> <<>>]
    /\ UNCHANGED <<pc, log, window, threads, textures, N, overflow_checks, arr, h, w, self, rhs, vec, other,
                   man, processed>>

\* let ret = vec.mul_num(num).div_num(num)
CallMulDivNum ==
    /\ call = NoCall
    /\ \E s \in VecScalars :
          /\ num' = s
          /\ ret' = Vector_div_num(mul_num(vec, s), s)
    /\ call' = [fn |-> "mul_num.div_num", args |-> <<>>]
    /\ UNCHANGED <<pc, log, window, threads, textures, N, overflow_checks, arr, h, w, self, rhs, vec, other,
                   man, processed>>

\* let ret = vec.normalized()
CallNormalized ==
    /\ call = NoCall
    /\ ret' = normalized(vec)
    /\ call' = [fn |-> "normalized", args |-> <<>>]
    /\ UNCHANGED <<pc, log, window, threads, textures, N, overflow_checks, arr, h, w, self, rhs, num, vec, other,
                   man, processed>>

NextVec ==
    \/ \E fn \in VecOps : CallVecOp(fn)
    \/ \E fn \in NumOps : CallNumOp(fn)
    \/ CallMulDivNum
    \/ CallNormalized

SpecVec == InitVec /\ [][NextVec]_vars

\* the scalar operator `op` of the call fn
ScalarOp(fn, l, r) ==
    CASE fn \in {"add_vec", "add_num"} -> add(l, r)
      [] fn \in {"sub_vec", "sub_num"} -> sub(l, r)
      [] fn \in {"mul_vec", "mul_num"} -> mul(l, r)
      [] fn \in {"div_vec", "div_num"} -> div(l, r)

\* ret is the vector of the components c[i], and no vector when the scalar
\* operator panicked on a component
ComponentsAre(c) ==
    IF \E i \in DOMAIN c : c[i] = Panic THEN ret = NoVec
    ELSE /\ ret # NoVec
         /\ Len(ret) = Len(vec)
         /\ \A i \in 1 .. Len(vec) : ret[i] = c[i]

\* C12: for every vector type, every op in {add, sub, mul, div}, all vectors
\* a, b and every scalar s, a.op_vec(b) has the arity of a and component i
\* equal to a[i] op b[i], and a.op_num(s) has component i equal to a[i] op s
\* (the call panics where the scalar operator does).
C12_Componentwise ==
    /\ call.fn \in VecOps =>
          ComponentsAre([i \in 1 .. Len(vec) |-> ScalarOp(call.fn, vec[i], other[i])])
    /\ call.fn \in NumOps =>
          ComponentsAre([i \in 1 .. Len(vec) |-> ScalarOp(call.fn, vec[i], num)])

\* a vector of three components was subtracted from another: the difference
\* of the first components is negative, the other two are the receiver's
C12_Witness ==
    /\ call.fn = "sub_vec"
    /\ Len(vec) = 3 /\ vec[1] = 2 /\ vec[2] = MaxOf
    /\ other[1] = MaxOf
    /\ ret = <<2 - MaxOf, MaxOf, 0>>

\* C13 as claimed: for every vector a and every nonzero scalar s of a
\* bounded integer type, a.mul_num(s).div_num(s) == a.
C13_MulDivRoundTrip ==
    (call.fn = "mul_num.div_num" /\ num # 0) => ret = vec

\* C13, amended: for every vector a and every nonzero scalar s of a bounded
\* integer type, a.mul_num(s).div_num(s) == a whenever no product a[i] * s
\* overflows the type; when a product overflows, an overflow-checked build
\* panics and a wrapping build does not return a.
C13_RoundTripUnlessOverflow ==
    (call.fn = "mul_num.div_num" /\ num # 0) =>
        IF \A i \in 1 .. Len(vec) : Fits(vec[i] * num) THEN ret = vec
        ELSE IF overflow_checks THEN ret = NoVec
        ELSE ret # vec

\* a signed vector with a positive and a negative component was multiplied
\* and divided by two, and came back
C13_Witness ==
    /\ call.fn = "mul_num.div_num"
    /\ vec[1] = 2 /\ vec[2] = -1 /\ num = 2
    /\ ret = vec

\* C14 as claimed: for every nonzero vector v, v.normalized() equals
\* v.div_num(v.len()) and v.normalized().len() is 1 (exactly 1 for integer
\* scalars).
C14_NormalizedUnitLength ==
    (call.fn = "normalized" /\ \E i \in 1 .. Len(vec) : vec[i] # 0) =>
        /\ ret = Vector_div_num(vec, len(vec))
        /\ len(ret) = 1

---------------------------------------------------------------------------
(* Matrix::mul_row_vec and Matrix::mul_col_vec.                            *)

\* self.get_col_vec(index)
get_col_vec(m, index) ==
    [i \in 1 .. get_height(m) |-> get_value_ref(m, i - 1, index)]

\* self.get_row_vec(index)
get_row_vec(m, index) ==
    [i \in 1 .. get_width(m) |-> get_value_ref(m, index, i - 1)]

\* self.set_value(index, val): self as it is left; indexing outside the
\* array panics, and so does a val whose computation panicked
set_value(v, index, val) ==
    IF v = NoVec \/ val = Panic \/ ~(0 <= index /\ index < Len(v)) THEN NoVec
    ELSE [v EXCEPT ![index + 1] = val]

RECURSIVE RowVecLoop(_, _, _)
\* ret of mul_row_vec after i rounds of its loop
RowVecLoop(m, vb, i) ==
    IF i = 0 THEN cm_copy(vb)
    ELSE set_value(RowVecLoop(m, vb, i - 1), i - 1,
                   array_dot(vb, get_col_vec(m, i - 1)))

\* self.mul_row_vec(&vb)
mul_row_vec(m, vb) ==
    IF get_height(m) # Len(vb) THEN NoVec
    ELSE RowVecLoop(m, vb, get_width(m))

RECURSIVE ColVecLoop(_, _, _)
\* ret of mul_col_vec after i rounds of its loop
ColVecLoop(m, vb, i) ==
    IF i = 0 THEN cm_copy(vb)
    ELSE set_value(ColVecLoop(m, vb, i - 1), i - 1,
                   array_dot(vb, get_row_vec(m, i - 1)))

\* self.mul_col_vec(&vb)
mul_col_vec(m, vb) ==
    IF get_width(m) # Len(vb) THEN NoVec
    ELSE ColVecLoop(m, vb, get_height(m))

\* largest height and width of a matrix that multiplies a vector
MaxMvDim == 3
\* longest flat array a matrix that multiplies a vector is built from
MaxMvLen == 2
\* longest array a vector multiplied by a matrix is built from
MaxMvVecLen == 1

InitMulVec ==
    /\ NoApp
    /\ N \in Types
    /\ overflow_checks \in BOOLEAN
    /\ call = NoCall
    /\ arr = <<>>
    /\ h = 0
    /\ w = 0
    /\ self \in InputMats(MaxMvDim, MaxMvLen)
    /\ rhs = NoMat
    /\ num = 0
    /\ \E size \in Arities : vec \in Vectors(size, MaxMvVecLen)
    /\ other = <<>>
    /\ man = DefaultEventManager_new
    /\ processed = <<>>
    /\ ret = NoMat

\* let ret = self.mul_row_vec(&vec)
CallMulRowVec ==
    /\ call = NoCall
    /\ ret' = mul_row_vec(self, vec)
    /\ call' = [fn |-> "mul_row_vec", args |-> <<>>]
    /\ UNCHANGED <<pc, log, window, threads, textures, N, overflow_checks, arr, h, w, self, rhs, num, vec, other,
                   man, processed>>

\* let ret = self.mul_col_vec(&vec)
CallMulColVec ==
    /\ call = NoCall
    /\ ret' = mul_col_vec(self, vec)
    /\ call' = [fn |-> "mul_col_vec", args |-> <<>>]
    /\ UNCHANGED <<pc, log, window, threads, textures, N, overflow_checks, arr, h, w, self, rhs, num, vec, other,
                   man, processed>>

NextMulVec == CallMulRowVec \/ CallMulColVec

SpecMulVec == InitMulVec /\ [][NextMulVec]_vars

\* the mathematical dot product of v with column c of m, and with row r of m
DotCol(m, v, c) == SumTo([mat |-> <<v>>], m, 0, c, Len(v))
DotRow(m, v, r) == SumTo(m, [mat |-> [k \in 1 .. Len(v) |-> <<v[k]>>]], r, 0, Len(v))

\* ret is a vector whose every component i is the product prod(i) in the
\* arithmetic of the scalar type, for i an index below n; or the call
\* panicked on an overflowing product dots[i + 1]
ProductsAre(n, dots, prod(_)) ==
    \/ /\ ret = NoVec
       /\ \E i \in 1 .. Len(dots) : dots[i] = Panic
    \/ /\ ret # NoVec
       /\ \A i \in 0 .. Len(ret) - 1 : i < n /\ ret[i + 1] = Wrap(prod(i))

\* C15 as claimed: mul_row_vec(v) panics unless v's arity equals the matrix
\* height and otherwise returns a vector whose every component i is the dot
\* product of v with matrix column i; mul_col_vec(v) panics unless v's arity
\* equals the matrix width and otherwise returns a vector whose every
\* component i is the dot product of v with matrix row i.
C15_RowColProducts ==
    /\ call.fn = "mul_row_vec" =>
          IF Len(vec) # get_height(self) THEN ret = NoVec
          ELSE LET P(i) == DotCol(self, vec, i)
               IN  ProductsAre(get_width(self),
                               [i \in 1 .. get_width(self) |->
                                   array_dot(vec, get_col_vec(self, i - 1))], P)
    /\ call.fn = "mul_col_vec" =>
          IF Len(vec) # get_width(self) THEN ret = NoVec
          ELSE LET P(i) == DotRow(self, vec, i)
               IN  ProductsAre(get_height(self),
                               [i \in 1 .. get_height(self) |->
                                   array_dot(vec, get_row_vec(self, i - 1))], P)

---------------------------------------------------------------------------
(* matrices::translation and matrices::translation_3d.                     *)

\* self.flatten(): the cells in row-major order
flatten(m) ==
    LET wid == get_width(m)
    IN  [k \in 1 .. wid * get_height(m) |->
            get_value_ref(m, (k - 1) \div wid, (k - 1) % wid)]

\* MAT::from_matrix(mat) of the type `kind`:
\* Self::from_flat(&mat.flatten(), mat.get_width(), mat.get_height())
from_matrix(kind, m) == from_flat(kind, flatten(m), get_width(m), get_height(m))

\* a mutant of translation: the offsets are stored in the last column
translation_last_column(size, trans) ==
    [kind |-> "Generic",
     mat |-> [i \in 1 .. size |->
               [j \in 1 .. size |->
                  IF j = size /\ i < size /\ i <= Len(trans) THEN trans[i]
                  ELSE identity(size).mat[i][j]]]]

RECURSIVE TranslationLoop(_, _, _)
\* ret of translation after i rounds of its loop (the loop breaks at the
\* end of trans)
TranslationLoop(size, trans, i) ==
    IF i = 0 THEN identity(size)
    ELSE LET ret0 == TranslationLoop(size, trans, i - 1)
         IN  IF i - 1 < Len(trans)
             THEN [ret0 EXCEPT !.mat[size][i] = trans[i]]
             ELSE ret0

\* matrices::translation(size, trans); size - 1 underflows for size = 0
translation(size, trans) ==
    IF size = 0 THEN NoMat ELSE TranslationLoop(size, trans, size - 1)

\* matrices::translation_3d(v)
translation_3d(v) == from_matrix("Mat4", translation(4, v))

\* largest size handed to translation
MaxTransSize == 4
\* longest array of offsets handed to translation
MaxTransLen == 3
\* longest array the coordinates of the translated point are built from
MaxPointLen == 1

InitTrans ==
    /\ NoApp
    /\ N \in Types
    /\ overflow_checks \in BOOLEAN
    /\ call = NoCall
    /\ arr \in UNION {[1 .. k -> VecScalars] : k \in 0 .. MaxTransLen}
    /\ h = 0
    /\ w = 0
    /\ self = NoMat
    /\ rhs = NoMat
    /\ num = 0
    /\ vec = new_arr(3, arr)
    /\ other = <<>>
    /\ man = DefaultEventManager_new
    /\ processed = <<>>
    /\ ret = NoMat

\* let ret = matrices::translation::<N>(n, &arr)
CallTranslation ==
    /\ call = NoCall
    /\ \E n \in 1 .. MaxTransSize :
          /\ ret' = translation(n, arr)
          /\ call' = [fn |-> "translation", args |-> <<n>>]
    /\ UNCHANGED <<pc, log, window, threads, textures, N, overflow_checks, arr, h, w, self, rhs, num, vec, other,
                   man, processed>>

\* let ret = matrices::translation_3d(&vec).mul_row_vec(&Vec4::new(x, y, z, 1))
CallTranslation3dRowVec ==
    /\ call = NoCall
    /\ \E p \in Vectors(3, MaxPointLen) :
          /\ other' = <<p[1], p[2], p[3], one>>
          /\ self' = translation_3d(vec)
          /\ ret' = mul_row_vec(self', other')
    /\ call' = [fn |-> "translation_3d.mul_row_vec", args |-> <<>>]
    /\ UNCHANGED <<pc, log, window, threads, textures, N, overflow_checks, arr, h, w, rhs, num, vec, man, processed>>

NextTrans == CallTranslation \/ CallTranslation3dRowVec

SpecTrans == InitTrans /\ [][NextTrans]_vars

\* C16: translation(n, offsets) with n >= 1 is identity(n) except that cell
\* (n - 1, i) is offsets[i] for every i < min(n - 1, len(offsets)); and
\* translation_3d(t).mul_row_vec((x, y, z, 1)) is (x + t0, y + t1, z + t2, 1)
\* in the arithmetic of the scalar type (the translation is in the last row).
C16_TranslationLastRow ==
    /\ call.fn = "translation" =>
          LET n == call.args[1]
          IN  /\ ret # NoMat
              /\ get_height(ret) = n /\ get_width(ret) = n
              /\ \A i \in 0 .. n - 1 : \A j \in 0 .. n - 1 :
                    get_value_ref(ret, i, j) =
                        IF i = n - 1 /\ j < Min(n - 1, Len(arr)) THEN arr[j + 1]
                        ELSE IF i = j THEN 1 ELSE 0
    /\ call.fn = "translation_3d.mul_row_vec" =>
          LET sum == [i \in 1 .. 3 |-> add(other[i], vec[i])]
          IN  IF \E i \in 1 .. 3 : sum[i] = Panic THEN ret = NoVec
              ELSE ret = <<sum[1], sum[2], sum[3], 1>>

\* the point (2, 0, 0) was translated by three distinct offsets
C16_Witness ==
    /\ call.fn = "translation_3d.mul_row_vec"
    /\ N = "u8"
    /\ vec = <<1, 2, MaxOf>>
    /\ other = <<2, 0, 0, 1>>
    /\ self.mat[4] = <<1, 2, MaxOf, 1>>
    /\ ret = <<3, 2, MaxOf, 1>>


(***************************************************************************)
(* Quaternions: quaternion.rs.  A Quaternion<N> is its array of four       *)
(* cells (x, y, z, w); the rotation matrices are those of matrix.rs.       *)
(***************************************************************************)

\* Quaternion::complex_real(complex, real)
complex_real(complex, real) ==
    IF complex = NoVec THEN NoVec
    ELSE VBuilt(<<complex[1], complex[2], complex[3], real>>)

\* an angle_axis that takes the sine and cosine of the whole angle
angle_axis_whole_angle(angle, axis) ==
    complex_real(mul_num(axis, sin(angle)), cos(angle))

\* Quaternion::angle_axis(angle, axis): the axis is scaled as it is given
angle_axis(angle, axis) ==
    complex_real(mul_num(axis, sin(mul(angle, half))), cos(mul(angle, half)))

\* m[r][c] = v, for a cell of the matrix
index_mut(m, r, c, v) ==
    IF m = NoMat \/ ~InBounds(m, r, c) THEN NoMat
    ELSE Built([m EXCEPT !.mat[r + 1][c + 1] = v])

\* matrices::rotation_euler_num(x, y, z)
rotation_euler_num(x, y, z) ==
    LET rot_x == index_mut(index_mut(index_mut(index_mut(identity(4),
                     1, 1, cos(x)), 2, 2, cos(x)), 1, 2, sin(x)), 2, 1, neg(sin(x)))
        rot_y == index_mut(index_mut(index_mut(index_mut(identity(4),
                     0, 0, cos(y)), 2, 2, cos(y)), 0, 2, sin(y)), 2, 0, neg(sin(y)))
        rot_z == index_mut(index_mut(index_mut(index_mut(identity(4),
                     0, 0, cos(z)), 1, 1, cos(z)), 0, 1, sin(z)), 1, 0, neg(sin(z)))
    IN  IF rot_x = NoMat \/ rot_y = NoMat \/ rot_z = NoMat THEN NoMat
        ELSE LET zy == mul_mat(rot_z, rot_y)
                 zyx == IF zy = NoMat THEN NoMat ELSE mul_mat(zy, rot_x)
             IN  IF zyx = NoMat THEN NoMat ELSE from_matrix("Mat4", zyx)

\* matrices::rotation_euler(v)
rotation_euler(v) ==
    IF v = NoVec THEN NoMat ELSE rotation_euler_num(v[1], v[2], v[3])

\* matrices::rotation_quaternion_num(x, y, z, w)
rotation_quaternion_num(x, y, z, w_) ==
    Built(from_flat("Mat4",
        << sub(sub(one, mul(mul(two, y), y)), mul(mul(two, z), z)),
           sub(mul(mul(two, x), y), mul(mul(two, z), w_)),
           add(mul(mul(two, x), z), mul(mul(two, y), w_)),
           zero,
           add(mul(mul(two, x), y), mul(mul(two, z), w_)),
           sub(sub(one, mul(mul(two, x), x)), mul(mul(two, z), z)),
           sub(mul(mul(two, y), z), mul(mul(two, x), w_)),
           zero,
           sub(mul(mul(two, x), z), mul(mul(two, y), w_)),
           add(mul(mul(two, y), z), mul(mul(two, x), w_)),
           sub(sub(one, mul(mul(two, x), x)), mul(mul(two, y), y)),
           zero,
           zero, zero, zero, one >>, 4, 4))

\* matrices::rotation_quaternion(q)
rotation_quaternion(q) ==
    IF q = NoVec THEN NoMat ELSE rotation_quaternion_num(q[1], q[2], q[3], q[4])


(***************************************************************************)
(* The harness of angle_axis and of the two rotation matrices: a caller    *)
(* holding an angle `num` and an axis `vec` builds the quaternion, or      *)
(* builds both rotation matrices and applies them to a point.              *)
(***************************************************************************)

\* the angles of type f64 are the multiples of pi / 2 up to this many
MaxQuarterTurns == 4
\* longest array the coordinates of the rotated point are built from
MaxRotPointLen == 1

\* the number k * pi / 2 of type f64
QuarterTurns(k) == Real(0, 0, k, 1)

\* the angles handed to angle_axis
Angles ==
    IF IsFloat
    THEN {QuarterTurns(k) : k \in -MaxQuarterTurns .. MaxQuarterTurns}
    ELSE VecScalars

\* the coordinates of the axes: for f64, -1, 0, 1, 2 and sqrt(2) / 2
AxisScalars ==
    IF IsFloat
    THEN {As(-1), As(0), As(1), As(2), Real(0, 1, 0, 1)}
    ELSE VecScalars

\* the coordinates of the points rotated
PointScalars == IF IsFloat THEN {As(-1), As(0), As(1)} ELSE {neg(one), zero, one}

InitQuat ==
    /\ NoApp
    /\ N \in {"f64", "i8"}
    /\ overflow_checks \in (IF IsFloat THEN {FALSE} ELSE BOOLEAN)
    /\ call = NoCall
    /\ arr = <<>>
    /\ h = 0
    /\ w = 0
    /\ self = NoMat
    /\ rhs = NoMat
    /\ num \in Angles
    /\ vec \in [1 .. 3 -> AxisScalars]
    /\ other = <<>>
    /\ man = DefaultEventManager_new
    /\ processed = <<>>
    /\ ret = NoVec

\* let ret = Quaternion::angle_axis(num, &vec)
CallAngleAxis ==
    /\ call = NoCall
    /\ ret' = angle_axis(num, vec)
    /\ call' = [fn |-> "angle_axis", args |-> <<>>]
    /\ UNCHANGED <<pc, log, window, threads, textures, N, overflow_checks, arr, h, w, self, rhs, num, vec, other,
                   man, processed>>

\* let self = matrices::rotation_quaternion(&Quaternion::angle_axis(num, &vec));
\* let rhs = matrices::rotation_euler(&vec.mul_num(num));
\* let ret = self.mul_row_vec(&Vec4::new(x, y, z, 1))
CallRotations ==
    /\ call = NoCall
    /\ \E p \in [1 .. 3 -> PointScalars] :
          /\ \A i \in 1 .. 3 : i > MaxRotPointLen => p[i] = zero
          /\ other' = <<p[1], p[2], p[3], one>>
    /\ self' = rotation_quaternion(angle_axis(num, vec))
    /\ rhs' = rotation_euler(mul_num(vec, num))
    /\ ret' = IF self' = NoMat THEN NoVec ELSE mul_row_vec(self', other')
    /\ call' = [fn |-> "rotation_quaternion.mul_row_vec", args |-> <<>>]
    /\ UNCHANGED <<pc, log, window, threads, textures, N, overflow_checks, arr, h, w, num, vec, man, processed>>

NextQuat == CallAngleAxis \/ CallRotations

SpecQuat == InitQuat /\ [][NextQuat]_vars

\* x * x + y * y + z * z (+ w * w) of the cells of v
NormSquared(v) == DotLoop(v, v, Len(v))

\* the sine and the cosine of half of the angle `num` of type f64
SinHalfAngle == SinEighth((num.p * 2 ^ (1 - num.e)) % 8)
CosHalfAngle == SinEighth((num.p * 2 ^ (1 - num.e) + 2) % 8)

\* C17 as stated: for every angle and every nonzero axis, angle_axis returns
\* a unit quaternion, x * x + y * y + z * z + w * w = 1.
C17_UnitForEveryAxis ==
    (call.fn = "angle_axis" /\ vec # <<zero, zero, zero>>) =>
        (ret # NoVec /\ NormSquared(ret) = one)

\* C17: for f64, angle_axis(angle, axis) is (axis * sin(angle / 2),
\* cos(angle / 2)) with the axis as it is given, not normalized; the result
\* is a unit quaternion when the axis has unit length.  For the integer
\* types it is (0, 0, 0, 1) for every angle and axis.
C17_UnitForUnitAxis ==
    call.fn = "angle_axis" =>
        IF IsFloat
        THEN /\ ret = << RealMul(vec[1], SinHalfAngle), RealMul(vec[2], SinHalfAngle),
                         RealMul(vec[3], SinHalfAngle), CosHalfAngle >>
             /\ NormSquared(vec) = one => NormSquared(ret) = one
        ELSE ret = <<0, 0, 0, 1>>

\* angle_axis(pi / 2, (sqrt(2) / 2, 0, sqrt(2) / 2)) = (1 / 2, 0, 1 / 2, sqrt(2) / 2)
C17_Witness ==
    /\ call.fn = "angle_axis"
    /\ IsFloat
    /\ num = QuarterTurns(1)
    /\ vec = <<Real(0, 1, 0, 1), As(0), Real(0, 1, 0, 1)>>
    /\ NormSquared(vec) = one
    /\ ret = <<Real(1, 0, 0, 1), As(0), Real(1, 0, 0, 1), Real(0, 1, 0, 1)>>
    /\ NormSquared(ret) = one


\* the three coordinate axes, of type f64
CoordinateAxes ==
    { <<As(1), As(0), As(0)>>, <<As(0), As(1), As(0)>>, <<As(0), As(0), As(1)>> }

\* C18: for each of the three coordinate axes and every angle t that is a
\* multiple of pi / 2, rotation_quaternion(angle_axis(t, axis)) applied to a
\* point gives what the rotation_euler matrix of the rotation by t about
\* that axis gives.
C18_QuaternionMatchesEuler ==
    (call.fn = "rotation_quaternion.mul_row_vec" /\ IsFloat /\ vec \in CoordinateAxes) =>
        (self # NoMat /\ rhs # NoMat /\ ret = mul_row_vec(rhs, other))


(***************************************************************************)
(* The harness of DefaultEventManager: the window hands the manager one    *)
(* batch of events after the other; `processed` keeps the batches handed   *)
(* over so far.                                                            *)
(***************************************************************************)

\* most batches handed to process_events
MaxBatches == 2
\* most events in all the batches together
MaxEvents == 3

\* two of the variants of input::Key and of input::MouseButton
Keys == {"LeftAlt", "RightAlt"}
MouseButtons == {"Button1", "Button2"}

\* the events of the batches: every variant of WindowEvent
Events ==
    {[type |-> t, key |-> k, code |-> 0] : t \in {"KeyUp", "KeyDown", "KeyHeld"}, k \in Keys}
    \cup {[type |-> t, btn |-> b] :
             t \in {"MouseButtonUp", "MouseButtonDown", "MouseButtonHeld"},
             b \in MouseButtons}
    \cup {[type |-> "Position", x |-> 1, y |-> 1],
          [type |-> "Size", w |-> 2, h |-> 2],
          [type |-> "Close"],
          [type |-> "Focus", focused |-> FALSE],
          [type |-> "CursorPosition", x |-> 1, y |-> 1],
          [type |-> "CursorEnter", cursor_on_window |-> FALSE],
          [type |-> "Scroll", x |-> 0, y |-> 1],
          [type |-> "None"]}

\* the batches of at most n events
Batches(n) == UNION {[1 .. k -> Events] : k \in 0 .. n}

RECURSIVE EventCount(_)
\* the number of events in the batches
EventCount(batches) ==
    IF batches = <<>> THEN 0
    ELSE Len(batches[1]) + EventCount(Tail(batches))

InitEvents ==
    /\ NoApp
    /\ N = "i8"
    /\ overflow_checks = FALSE
    /\ call = NoCall
    /\ arr = <<>>
    /\ h = 0
    /\ w = 0
    /\ self = NoMat
    /\ rhs = NoMat
    /\ num = 0
    /\ vec = <<>>
    /\ other = <<>>
    /\ man = DefaultEventManager_new
    /\ processed = <<>>
    /\ ret = NoMat

\* man.process_events(&events)
CallProcessEvents ==
    /\ Len(processed) < MaxBatches
    /\ \E events \in Batches(MaxEvents - EventCount(processed)) :
          /\ man' = process_events(man, events)
          /\ processed' = Append(processed, events)
    /\ call' = [fn |-> "process_events", args |-> <<>>]
    /\ UNCHANGED <<pc, log, window, threads, textures, N, overflow_checks, arr, h, w, self, rhs, num, vec, other, ret>>

NextEvents == CallProcessEvents

SpecEvents == InitEvents /\ [][NextEvents]_vars

RECURSIVE Flat(_)
\* the events of the batches, in the order they were processed
Flat(batches) ==
    IF batches = <<>> THEN <<>>
    ELSE batches[1] \o Flat(Tail(batches))

\* the places in the events where a key or button event of the types given
\* names the key or button x
Places(events, types, x) ==
    {i \in 1 .. Len(events) :
        /\ events[i].type \in types
        /\ IF events[i].type \in {"KeyUp", "KeyDown", "KeyHeld"}
           THEN events[i].key = x ELSE events[i].btn = x}

Last(places) == CHOOSE i \in places : \A j \in places : j <= i

\* the most recent Down or Up event of x exists and is the Down event
LastIsDown(events, down, up, x) ==
    LET places == Places(events, {down, up}, x)
    IN  places # {} /\ events[Last(places)].type = down

\* C19: after any sequence of batches, mouse_pressed(b) (key_pressed(k)) is
\* true exactly when the most recent MouseButtonDown / MouseButtonUp
\* (KeyDown / KeyUp) event of that button (key) over all the batches
\* processed is a Down event, and false when there was none: Held events
\* and the events of other buttons and keys change nothing, and a press
\* persists across batches until the matching Up.
C19_PressedIffLastIsDown ==
    /\ \A k \in Keys :
          key_pressed(man, k) = LastIsDown(Flat(processed), "KeyDown", "KeyUp", k)
    /\ \A b \in MouseButtons :
          mouse_pressed(man, b) =
              LastIsDown(Flat(processed), "MouseButtonDown", "MouseButtonUp", b)

\* Button1 went down in the first batch; the second batch holds it and
\* releases Button2; Button1 is still pressed
C19_Witness ==
    /\ Len(processed) = 2
    /\ processed[1] = <<[type |-> "MouseButtonDown", btn |-> "Button1"]>>
    /\ processed[2] = <<[type |-> "MouseButtonHeld", btn |-> "Button1"],
                        [type |-> "MouseButtonUp", btn |-> "Button2"]>>
    /\ mouse_pressed(man, "Button1")
    /\ ~mouse_pressed(man, "Button2")


(***************************************************************************)
(* The harness of determinant and determinant_recursive: a caller holds a  *)
(* square matrix and asks for its determinant, or for                      *)
(* determinant_recursive(k) with k up to its size.                         *)
(***************************************************************************)

\* largest size of the matrices whose determinant is taken
MaxDetDim == 3
\* longest flat array the matrices are built from
MaxDetLen == 9

\* the cells of the matrices
DetScalars == {zero, one, MaxOf}

InitDet ==
    /\ NoApp
    /\ N \in Types
    /\ overflow_checks \in BOOLEAN
    /\ call = NoCall
    /\ arr = <<>>
    /\ h = 0
    /\ w = 0
    /\ self \in {from_flat(k, a, n, n) :
                    k \in Kinds, n \in 1 .. MaxDetDim,
                    a \in UNION {[1 .. l -> DetScalars] : l \in 0 .. MaxDetLen}}
                \ {NoMat}
    /\ rhs = NoMat
    /\ num = 0
    /\ vec = <<>>
    /\ other = <<>>
    /\ man = DefaultEventManager_new
    /\ processed = <<>>
    /\ ret = NoMat

\* let ret = self.determinant_recursive(k)
CallDeterminantRecursive ==
    /\ call = NoCall
    /\ \E k \in 1 .. get_height(self) :
          /\ ret' = determinant_recursive(self, k)
          /\ call' = [fn |-> "determinant_recursive", args |-> <<k>>]
    /\ UNCHANGED <<pc, log, window, threads, textures, N, overflow_checks, arr, h, w, self, rhs, num, vec, other,
                   man, processed>>

NextDet == CallDeterminant \/ CallDeterminantRecursive

SpecDet == InitDet /\ [][NextDet]_vars

\* the permutations of 1 .. k
PermutationsOf(k) == {p \in [1 .. k -> 1 .. k] : \A i, j \in 1 .. k : p[i] = p[j] => i = j}

\* +1 for an even permutation, -1 for an odd one
Signature(p) ==
    LET inversions == {<<i, j>> \in (DOMAIN p) \X (DOMAIN p) : i < j /\ p[i] > p[j]}
    IN  IF Cardinality(inversions) % 2 = 0 THEN 1 ELSE -1

RECURSIVE Product(_, _, _)
\* the product of the cells (i, p[i]) of the first k rows
Product(m, p, k) == IF k = 0 THEN 1 ELSE Product(m, p, k - 1) * m.mat[k][p[k]]

RECURSIVE Sum(_, _, _)
\* the sum of the signed products over the permutations in ps
Sum(m, ps, k) ==
    IF ps = {} THEN 0
    ELSE LET p == CHOOSE q \in ps : TRUE
         IN  Signature(p) * Product(m, p, k) + Sum(m, ps \ {p}, k)

\* the Leibniz determinant of the leading k x k block, in the integers
Leibniz(m, k) == Sum(m, PermutationsOf(k), k)

\* C20: for a square matrix of size n in 1 .. 4 with integer cells,
\* determinant() is the Leibniz determinant and determinant_recursive(k),
\* k <= n, is the Leibniz determinant of the leading k x k block.  The
\* value is taken in the arithmetic of the scalar type: a wrapping build
\* returns it modulo 2^Bits, a checked build returns it or panics on an
\* overflow.
C20_DeterminantIsLeibniz ==
    call.fn \in {"determinant", "determinant_recursive"} =>
        LET k == IF call.fn = "determinant" THEN get_height(self) ELSE call.args[1]
        IN  IF overflow_checks
            THEN ret = Panic \/ ret = Leibniz(self, k)
            ELSE ret = Wrap(Leibniz(self, k))


(***************************************************************************)
(* The in-place vector operations: vector.rs.  An in-place call leaves     *)
(* [self, fault]: the receiver as the call leaves it, and whether the call *)
(* panicked.                                                               *)
(***************************************************************************)

RECURSIVE SetLoop(_, _, _)
\* the receiver after i rounds of the loop of set(other)
SetLoop(v, o, i) ==
    IF i = 0 THEN [self |-> v, fault |-> FALSE]
    ELSE LET s == SetLoop(v, o, i - 1)
         IN  IF s.fault THEN s
             ELSE IF i > Len(o) THEN [self |-> s.self, fault |-> TRUE]
             ELSE [self |-> [s.self EXCEPT ![i] = o[i]], fault |-> FALSE]

\* a set that leaves the last component as it is
set_all_but_last(v, o) == SetLoop(v, o, Len(v) - 1)

\* self.set(other)
set(v, o) == SetLoop(v, o, Len(v))

\* self.set(&tmp) for the temporary tmp of an operation on self: the
\* operation is evaluated, and may panic, before set is entered
set_result(v, tmp) ==
    IF tmp = NoVec THEN [self |-> v, fault |-> TRUE] ELSE set(v, tmp)

RECURSIVE DivEachLoop(_, _, _)
\* a division that writes each quotient into self as soon as it is computed
DivEachLoop(v, o, i) ==
    IF i = 0 THEN [self |-> v, fault |-> FALSE]
    ELSE LET s == DivEachLoop(v, o, i - 1)
         IN  IF s.fault THEN s
             ELSE IF div(v[i], o[i]) = Panic THEN [self |-> s.self, fault |-> TRUE]
             ELSE [self |-> [s.self EXCEPT ![i] = div(v[i], o[i])], fault |-> FALSE]

add_eq_vec(v, o) == set_result(v, add_vec(v, o))
sub_eq_vec(v, o) == set_result(v, sub_vec(v, o))
\* a div_eq_vec that divides component by component in place
div_eq_vec_each_in_place(v, o) == DivEachLoop(v, o, Len(v))

div_eq_vec(v, o) == set_result(v, div_vec(v, o))
mul_eq_vec(v, o) == set_result(v, mul_vec(v, o))
add_eq_num(v, val) == set_result(v, add_num(v, val))
sub_eq_num(v, val) == set_result(v, sub_num(v, val))
mul_eq_num(v, val) == set_result(v, mul_num(v, val))
div_eq_num(v, val) == set_result(v, Vector_div_num(v, val))

\* self.normalize()
normalize(v) == set_result(v, normalized(v))

\* vector_utils::array_cross(a, b)
array_cross(a, b) ==
    IF Len(a) # 3 \/ Len(b) # 3 THEN NoVec
    ELSE VBuilt(<< sub(mul(a[2], b[3]), mul(a[3], b[2])),
                   sub(mul(a[3], b[1]), mul(a[1], b[3])),
                   sub(mul(a[1], b[2]), mul(a[2], b[1])) >>)

\* self.cross(other): Self::new_std_vec of the cross product
cross(v, o) ==
    IF array_cross(v, o) = NoVec THEN NoVec ELSE new_arr(3, array_cross(v, o))

(***************************************************************************)
(* The harness of the in-place calls: a caller holds a receiver `vec`,     *)
(* keeps a copy of the operands in call.args, and makes one call.  The     *)
(* assignment operators +=, -=, *= and /= are the calls of add_eq_vec,     *)
(* add_eq_num and so on that they forward to.                              *)
(***************************************************************************)

\* the components of the vector operand of a call
OperandScalars == {zero, two}

EqVecOps == {"add_eq_vec", "sub_eq_vec", "mul_eq_vec", "div_eq_vec"}
EqNumOps == {"add_eq_num", "sub_eq_num", "mul_eq_num", "div_eq_num"}
PureVecOps == VecOps \cup {"dot", "cross"}
PureNumOps == NumOps
PureOps == {"len", "normalized"}

\* what the in-place call fn leaves
InPlace(fn, v, o, s) ==
    CASE fn = "add_eq_vec" -> add_eq_vec(v, o)
      [] fn = "sub_eq_vec" -> sub_eq_vec(v, o)
      [] fn = "mul_eq_vec" -> mul_eq_vec(v, o)
      [] fn = "div_eq_vec" -> div_eq_vec(v, o)
      [] fn = "add_eq_num" -> add_eq_num(v, s)
      [] fn = "sub_eq_num" -> sub_eq_num(v, s)
      [] fn = "mul_eq_num" -> mul_eq_num(v, s)
      [] fn = "div_eq_num" -> div_eq_num(v, s)
      [] fn = "normalize" -> normalize(v)

\* what the non-mutating call fn returns
Pure(fn, v, o, s) ==
    CASE fn = "add_vec" -> add_vec(v, o)
      [] fn = "sub_vec" -> sub_vec(v, o)
      [] fn = "mul_vec" -> mul_vec(v, o)
      [] fn = "div_vec" -> div_vec(v, o)
      [] fn = "dot" -> dot(v, o)
      [] fn = "cross" -> cross(v, o)
      [] fn = "add_num" -> add_num(v, s)
      [] fn = "sub_num" -> sub_num(v, s)
      [] fn = "mul_num" -> mul_num(v, s)
      [] fn = "div_num" -> Vector_div_num(v, s)
      [] fn = "len" -> len(v)
      [] fn = "normalized" -> normalized(v)

\* vec.add_eq_vec(&other) or vec += &other, and likewise sub, mul, div
CallEqVec(fn) ==
    /\ call = NoCall
    /\ \E o \in [1 .. Len(vec) -> OperandScalars] :
          /\ other' = o
          /\ vec' = InPlace(fn, vec, o, num).self
          /\ ret' = IF InPlace(fn, vec, o, num).fault THEN NoVec ELSE vec'
          /\ call' = [fn |-> fn, args |-> <<vec, o, num>>]
    /\ UNCHANGED <<pc, log, window, threads, textures, N, overflow_checks, arr, h, w, self, rhs, num, man, processed>>

\* vec.add_eq_num(num) or vec += num, and likewise sub, mul, div
CallEqNum(fn) ==
    /\ call = NoCall
    /\ \E s \in VecScalars :
          /\ num' = s
          /\ vec' = InPlace(fn, vec, other, s).self
          /\ ret' = IF InPlace(fn, vec, other, s).fault THEN NoVec ELSE vec'
          /\ call' = [fn |-> fn, args |-> <<vec, other, s>>]
    /\ UNCHANGED <<pc, log, window, threads, textures, N, overflow_checks, arr, h, w, self, rhs, other, man, processed>>

\* vec.normalize()
CallNormalize ==
    /\ call = NoCall
    /\ vec' = normalize(vec).self
    /\ ret' = IF normalize(vec).fault THEN NoVec ELSE vec'
    /\ call' = [fn |-> "normalize", args |-> <<vec, other, num>>]
    /\ UNCHANGED <<pc, log, window, threads, textures, N, overflow_checks, arr, h, w, self, rhs, num, other, man, processed>>

\* let ret = vec.add_vec(&other), and likewise the other calls on &self with
\* a vector operand
CallPureVec(fn) ==
    /\ call = NoCall
    /\ fn = "cross" => Len(vec) = 3
    /\ \E o \in [1 .. Len(vec) -> OperandScalars] :
          /\ other' = o
          /\ ret' = Pure(fn, vec, o, num)
          /\ call' = [fn |-> fn, args |-> <<vec, o, num>>]
    /\ UNCHANGED <<pc, log, window, threads, textures, N, overflow_checks, arr, h, w, self, rhs, num, vec, man, processed>>

\* let ret = vec.add_num(num), and likewise the other calls on &self with a
\* scalar operand
CallPureNum(fn) ==
    /\ call = NoCall
    /\ \E s \in VecScalars :
          /\ num' = s
          /\ ret' = Pure(fn, vec, other, s)
          /\ call' = [fn |-> fn, args |-> <<vec, other, s>>]
    /\ UNCHANGED <<pc, log, window, threads, textures, N, overflow_checks, arr, h, w, self, rhs, vec, other, man, processed>>

\* let ret = vec.len(), and likewise vec.normalized()
CallPure(fn) ==
    /\ call = NoCall
    /\ ret' = Pure(fn, vec, other, num)
    /\ call' = [fn |-> fn, args |-> <<vec, other, num>>]
    /\ UNCHANGED <<pc, log, window, threads, textures, N, overflow_checks, arr, h, w, self, rhs, num, vec, other,
                   man, processed>>

\* largest height and width of the matrices of the matrix calls
MaxOperandDim == 2

\* the matrix operands: one matrix of every shape
OperandMats == {sized(nh, nw) : nh \in 1 .. MaxOperandDim, nw \in 1 .. MaxOperandDim}

\* let ret = self.mul_mat(&rhs)
CallMulMatOperands ==
    /\ call = NoCall
    /\ \E m \in OperandMats, r \in OperandMats :
          /\ self' = m
          /\ rhs' = r
          /\ ret' = mul_mat(m, r)
          /\ call' = [fn |-> "mul_mat", args |-> <<vec, m, r>>]
    /\ UNCHANGED <<pc, log, window, threads, textures, N, overflow_checks, arr, h, w, num, vec, other, man, processed>>

\* let ret = self.mul_row_vec(&vec), and likewise mul_col_vec
CallMulVecOperands(fn) ==
    /\ call = NoCall
    /\ \E m \in OperandMats :
          /\ self' = m
          /\ ret' = IF fn = "mul_row_vec" THEN mul_row_vec(m, vec) ELSE mul_col_vec(m, vec)
          /\ call' = [fn |-> fn, args |-> <<vec, m, rhs>>]
    /\ UNCHANGED <<pc, log, window, threads, textures, N, overflow_checks, arr, h, w, rhs, num, vec, other, man, processed>>

NextInPlace ==
    \/ CallMulMatOperands
    \/ \E fn \in {"mul_row_vec", "mul_col_vec"} : CallMulVecOperands(fn)
    \/ \E fn \in EqVecOps : CallEqVec(fn)
    \/ \E fn \in EqNumOps : CallEqNum(fn)
    \/ CallNormalize
    \/ \E fn \in PureVecOps : CallPureVec(fn)
    \/ \E fn \in PureNumOps : CallPureNum(fn)
    \/ \E fn \in PureOps : CallPure(fn)

SpecInPlace == InitVec /\ [][NextInPlace]_vars

\* the non-mutating call an in-place call stores the result of
PureOf(fn) ==
    CASE fn = "add_eq_vec" -> "add_vec"
      [] fn = "sub_eq_vec" -> "sub_vec"
      [] fn = "mul_eq_vec" -> "mul_vec"
      [] fn = "div_eq_vec" -> "div_vec"
      [] fn = "add_eq_num" -> "add_num"
      [] fn = "sub_eq_num" -> "sub_num"
      [] fn = "mul_eq_num" -> "mul_num"
      [] fn = "div_eq_num" -> "div_num"
      [] fn = "normalize" -> "normalized"

InPlaceOps == EqVecOps \cup EqNumOps \cup {"normalize"}

\* C22: after an in-place call that returned, self is what the non-mutating
\* operation returns on the receiver as it was before the call, and the
\* operand is as it was; after a non-mutating call the receiver and the
\* operand are as they were.
C22_InPlaceIsPure ==
    /\ (call.fn \in InPlaceOps /\ ret # NoVec) =>
          /\ vec = Pure(PureOf(call.fn), call.args[1], call.args[2], call.args[3])
          /\ other = call.args[2]
          /\ num = call.args[3]
    /\ call.fn \in PureVecOps \cup PureNumOps \cup PureOps =>
          /\ vec = call.args[1]
          /\ other = call.args[2]
          /\ num = call.args[3]

\* (MAX, 2, 0) -= (2, 2, 0) left (MAX - 2, 0, 0) in the receiver
C22_Witness ==
    /\ call.fn = "sub_eq_vec"
    /\ call.args[1] = <<MaxOf, 2, 0>>
    /\ other = <<2, 2, 0>>
    /\ vec = <<MaxOf - 2, 0, 0>>
    /\ ret = vec

\* C23: when an in-place call panics (a division by zero in div_eq_vec or
\* div_eq_num, or any other fault of the operation), no component of self
\* has been modified; and when mul_mat, mul_row_vec or mul_col_vec panics,
\* its operands are as they were.
C23_NoPartialResult ==
    /\ (call.fn \in InPlaceOps /\ ret = NoVec) => vec = call.args[1]
    /\ (call.fn = "mul_mat" /\ ret = NoMat) =>
          (vec = call.args[1] /\ self = call.args[2] /\ rhs = call.args[3])
    /\ (call.fn \in {"mul_row_vec", "mul_col_vec"} /\ ret = NoVec) =>
          (vec = call.args[1] /\ self = call.args[2])

\* (2, 2) /= (2, 0) panicked on the second component and left (2, 2)
C23_Witness ==
    /\ call.fn = "div_eq_vec"
    /\ call.args[1] = <<2, 2>>
    /\ other = <<2, 0>>
    /\ ret = NoVec
    /\ vec = <<2, 2>>


(***************************************************************************)
(* The harness of from_matrix: a caller holds a matrix `self` of any type  *)
(* and shape and converts it to one of the matrix types.                   *)
(***************************************************************************)

\* largest height and width of the matrix converted
MaxFmDim == 3
\* longest flat array the matrix converted is built from
MaxFmLen == 4

InitFromMatrix ==
    /\ NoApp
    /\ N \in Types
    /\ overflow_checks \in BOOLEAN
    /\ call = NoCall
    /\ arr = <<>>
    /\ h = 0
    /\ w = 0
    /\ self \in InputMats(MaxFmDim, MaxFmLen)
    /\ rhs = NoMat
    /\ num = 0
    /\ vec = <<>>
    /\ other = <<>>
    /\ man = DefaultEventManager_new
    /\ processed = <<>>
    /\ ret = NoMat

\* let ret = MAT::from_matrix(&self), for the type MAT = kind
CallFromMatrix(kind) ==
    /\ call = NoCall
    /\ ret' = from_matrix(kind, self)
    /\ call' = [fn |-> "from_matrix", args |-> <<kind>>]
    /\ UNCHANGED <<pc, log, window, threads, textures, N, overflow_checks, arr, h, w, self, rhs, num, vec, other,
                   man, processed>>

NextFromMatrix == \E kind \in Kinds : CallFromMatrix(kind)

SpecFromMatrix == InitFromMatrix /\ [][NextFromMatrix]_vars

\* the matrix type `kind` has values of the shape of m
HoldsShapeOf(kind, m) ==
    kind = "Generic" \/ (get_height(m) = FixedSize(kind) /\ get_width(m) = FixedSize(kind))

\* C24: from_matrix(m) has the height and the width of m and the value of
\* m at every cell, for every shape of m the type can hold, non-square
\* shapes included.
C24_FromMatrixKeepsShape ==
    (call.fn = "from_matrix" /\ HoldsShapeOf(call.args[1], self)) =>
        /\ ret # NoMat
        /\ get_height(ret) = get_height(self)
        /\ get_width(ret) = get_width(self)
        /\ \A i \in 0 .. get_height(self) - 1 : \A j \in 0 .. get_width(self) - 1 :
              get_value_ref(ret, i, j) = get_value_ref(self, i, j)


(***************************************************************************)
(* from_vec of the fixed-size square types: Mat2 and Mat4, and the types   *)
(* gen_wasm_square_matrix! generates, of which Mat2i32, Mat3i32 and        *)
(* Mat4i32 stand for the sizes 2, 3 and 4.                                 *)
(***************************************************************************)

\* the types gen_wasm_square_matrix! generates
MacroKinds == {"Mat2i32", "Mat3i32", "Mat4i32"}

\* the width every row must have: the macro compares with the literal 2
from_vec_width(kind) == IF kind \in MacroKinds THEN 2 ELSE FixedSize(kind)

\* MAT::from_vec(vec), for MAT = kind: the height is asserted, then every
\* row is asserted to have the width and copied over the zeroes
from_vec(kind, rows) ==
    IF Len(rows) # FixedSize(kind) THEN NoMat
    ELSE IF \E i \in 1 .. Len(rows) : Len(rows[i]) # from_vec_width(kind) THEN NoMat
    ELSE [kind |-> kind,
          mat |-> [i \in 1 .. FixedSize(kind) |->
                    [j \in 1 .. FixedSize(kind) |->
                       IF j <= Len(rows[i]) THEN rows[i][j] ELSE zero]]]

\* most rows, and most values in a row, of the argument of from_vec
MaxVecRows == 4

\* the rows of `n` values: all one, or two and zero in turn
RowsOf(n) == { [j \in 1 .. n |-> one], [j \in 1 .. n |-> IF j % 2 = 1 THEN two ELSE zero] }

\* the arguments of from_vec: at most MaxVecRows rows of at most MaxVecRows
\* values each, of equal or different lengths
RowVecs ==
    UNION {[1 .. r -> UNION {RowsOf(n) : n \in 0 .. MaxVecRows}] : r \in 0 .. MaxVecRows}

InitFromVec ==
    /\ NoApp
    /\ N \in Types
    /\ overflow_checks = FALSE
    /\ call = NoCall
    /\ arr \in RowVecs
    /\ h = 0
    /\ w = 0
    /\ self = NoMat
    /\ rhs = NoMat
    /\ num = 0
    /\ vec = <<>>
    /\ other = <<>>
    /\ man = DefaultEventManager_new
    /\ processed = <<>>
    /\ ret = NoMat

\* let ret = MAT::from_vec(arr), for the type MAT = kind
CallFromVec(kind) ==
    /\ call = NoCall
    /\ ret' = from_vec(kind, arr)
    /\ call' = [fn |-> "from_vec", args |-> <<kind>>]
    /\ UNCHANGED <<pc, log, window, threads, textures, N, overflow_checks, arr, h, w, self, rhs, num, vec, other,
                   man, processed>>

NextFromVec == \E kind \in {"Mat2", "Mat4"} \cup MacroKinds : CallFromVec(kind)

SpecFromVec == InitFromVec /\ [][NextFromVec]_vars

\* C25: for every fixed-size square type of size SZ, from_vec(rows) returns
\* exactly when rows has SZ rows of SZ values each, with rows[i][j] at cell
\* (i, j), and panics for every other shape.
C25_FromVecExactShape ==
    call.fn = "from_vec" =>
        LET sz == FixedSize(call.args[1])
        IN  IF Len(arr) = sz /\ \A i \in 1 .. Len(arr) : Len(arr[i]) = sz
            THEN ret # NoMat /\ ret.mat = arr
            ELSE ret = NoMat


(***************************************************************************)
(* The harness of the named constants: a caller of any scalar type         *)
(* combines the constants, or halves and doubles a value `num` with them.  *)
(***************************************************************************)

\* the scalar types: the floating-point type and the two integer types
AllTypes == {"f64"} \cup Types

InitConst ==
    /\ NoApp
    /\ N \in AllTypes
    /\ overflow_checks \in (IF IsFloat THEN {FALSE} ELSE BOOLEAN)
    /\ call = NoCall
    /\ arr = <<>>
    /\ h = 0
    /\ w = 0
    /\ self = NoMat
    /\ rhs = NoMat
    /\ num \in (IF IsFloat THEN {Real(k, 0, 0, 1) : k \in MinOf .. MaxOf} ELSE MinOf .. MaxOf)
    /\ vec = <<>>
    /\ other = <<>>
    /\ man = DefaultEventManager_new
    /\ processed = <<>>
    /\ ret = NoMat

\* let ret = N::half() * N::two()
CallHalfTimesTwo ==
    /\ call = NoCall
    /\ ret' = mul(half, two)
    /\ call' = [fn |-> "half * two", args |-> <<>>]
    /\ UNCHANGED <<pc, log, window, threads, textures, N, overflow_checks, arr, h, w, self, rhs, num, vec, other,
                   man, processed>>

\* let ret = N::one() + N::one()
CallOnePlusOne ==
    /\ call = NoCall
    /\ ret' = add(one, one)
    /\ call' = [fn |-> "one + one", args |-> <<>>]
    /\ UNCHANGED <<pc, log, window, threads, textures, N, overflow_checks, arr, h, w, self, rhs, num, vec, other,
                   man, processed>>

\* let ret = N::zero() + N::one()
CallZeroPlusOne ==
    /\ call = NoCall
    /\ ret' = add(zero, one)
    /\ call' = [fn |-> "zero + one", args |-> <<>>]
    /\ UNCHANGED <<pc, log, window, threads, textures, N, overflow_checks, arr, h, w, self, rhs, num, vec, other,
                   man, processed>>

\* let ret = num * N::half() * N::two()
CallHalveAndDouble ==
    /\ call = NoCall
    /\ ret' = mul(mul(num, half), two)
    /\ call' = [fn |-> "num * half * two", args |-> <<>>]
    /\ UNCHANGED <<pc, log, window, threads, textures, N, overflow_checks, arr, h, w, self, rhs, num, vec, other,
                   man, processed>>

NextConst ==
    \/ CallHalfTimesTwo
    \/ CallOnePlusOne
    \/ CallZeroPlusOne
    \/ CallHalveAndDouble

SpecConst == InitConst /\ [][NextConst]_vars

\* C26 as stated: for every scalar type, integer and floating,
\* half() * two() = one(), one() + one() = two() and zero() + one() = one().
C26_ConstantsConsistent ==
    /\ call.fn = "half * two" => ret = one
    /\ call.fn = "one + one" => ret = two
    /\ call.fn = "zero + one" => ret = one

\* C26: one() + one() = two() and zero() + one() = one() for every scalar
\* type; half() * two() = one() for the floating-point types only: for the
\* integer types half() is 0, so half() * two() = zero() and halving and
\* doubling any value gives zero().
C26_HalfIsZeroForIntegers ==
    /\ call.fn = "half * two" => ret = IF IsFloat THEN one ELSE zero
    /\ call.fn = "one + one" => ret = two
    /\ call.fn = "zero + one" => ret = one
    /\ call.fn = "num * half * two" => ret = IF IsFloat THEN num ELSE zero

\* half() * two() was computed for a signed integer type and is 0
C26_Witness ==
    /\ call.fn = "half * two"
    /\ N = "i8"
    /\ ret = 0
    /\ ret # one


(***************************************************************************)
(* charwin::start (native): the control of start walks from on_start       *)
(* through the frame loop to on_close; `log` keeps every call start makes  *)
(* on the application logic and on its FrameManager, with what the call    *)
(* returned, and `ret` is what start returned.                             *)
(***************************************************************************)

\* most calls start makes in a run of the model
MaxCalls == 6

\* the messages of AppState::Crash
Messages == {"a", "b"}

\* enum AppState
AppState ==
    {[state |-> "Ok"], [state |-> "Exit"]}
    \cup {[state |-> "Crash", msg |-> m] : m \in Messages}

\* start has not returned
Running == [state |-> "running"]

\* a start that closes the application after a crash of on_update as well
after_on_update_closing(r) ==
    IF r.state = "Ok" THEN "loop" ELSE "on_close"

\* where start goes on when on_start returned r: the outer match
after_on_start(r) ==
    IF r.state = "Ok" THEN "loop" ELSE "returned"

\* where start goes on when on_update returned r: the inner match
after_on_update(r) ==
    IF r.state = "Crash" THEN "returned"
    ELSE IF r.state = "Exit" THEN "on_close"
    ELSE "loop"

InitStart ==
    /\ N = "i8"
    /\ overflow_checks = FALSE
    /\ call = [fn |-> "start", args |-> <<>>]
    /\ arr = <<>>
    /\ h = 0
    /\ w = 0
    /\ self = NoMat
    /\ rhs = NoMat
    /\ num = 0
    /\ vec = <<>>
    /\ other = <<>>
    /\ man = DefaultEventManager_new
    /\ processed = <<>>
    /\ ret = Running
    /\ pc = "on_start"
    /\ log = <<>>
    /\ window = <<>>
    /\ threads = <<>>
    /\ textures = <<>>

\* match logic.on_start()
OnStart ==
    /\ pc = "on_start"
    /\ \E r \in AppState :
          /\ log' = Append(log, [fn |-> "on_start", ret |-> r])
          /\ pc' = after_on_start(r)
          /\ ret' = IF r.state = "Ok" THEN ret ELSE r
    /\ UNCHANGED <<N, overflow_checks, call, arr, h, w, self, rhs, num, vec, other,
                   man, processed, window, threads, textures>>

\* if fm.next_frame_ready(): the clock decides
NextFrameReady ==
    /\ pc = "loop"
    /\ Len(log) < MaxCalls
    /\ \E ready \in BOOLEAN :
          /\ log' = Append(log, [fn |-> "next_frame_ready", ret |-> ready])
          /\ pc' = IF ready THEN "on_update" ELSE "loop"
    /\ UNCHANGED <<N, overflow_checks, call, arr, h, w, self, rhs, num, vec, other,
                   man, processed, ret, window, threads, textures>>

\* match logic.on_update()
OnUpdate ==
    /\ pc = "on_update"
    /\ \E r \in AppState :
          /\ log' = Append(log, [fn |-> "on_update", ret |-> r])
          /\ pc' = after_on_update(r)
          /\ ret' = IF r.state = "Crash" THEN r ELSE ret
    /\ UNCHANGED <<N, overflow_checks, call, arr, h, w, self, rhs, num, vec, other,
                   man, processed, window, threads, textures>>

\* logic.on_close(); AppState::Exit
OnClose ==
    /\ pc = "on_close"
    /\ \E r \in AppState :
          log' = Append(log, [fn |-> "on_close", ret |-> r])
    /\ pc' = "returned"
    /\ ret' = [state |-> "Exit"]
    /\ UNCHANGED <<N, overflow_checks, call, arr, h, w, self, rhs, num, vec, other,
                   man, processed, window, threads, textures>>

NextStart == OnStart \/ NextFrameReady \/ OnUpdate \/ OnClose

SpecStart == InitStart /\ [][NextStart]_vars

\* the places in the log where fn was called
CallsOf(fn) == {i \in 1 .. Len(log) : log[i].fn = fn}

\* the places where on_start or on_update returned AppState::Crash
Crashes ==
    {i \in CallsOf("on_start") \cup CallsOf("on_update") : log[i].ret.state = "Crash"}

\* the places where on_update returned AppState::Exit
Exits == {i \in CallsOf("on_update") : log[i].ret.state = "Exit"}

\* C27: on_start is called exactly once and first; on_update is called
\* only if on_start returned Ok and only while every earlier on_update
\* returned Ok; on_close is called exactly once when an on_update returned
\* Exit and never when on_start did not return Ok or an on_update returned
\* Crash; start returns Crash(msg) exactly when on_start or an on_update
\* returned Crash(msg), and Exit otherwise.
C27_StartLifecycle ==
    /\ CallsOf("on_start") = (IF log = <<>> THEN {} ELSE {1})
    /\ \A i \in CallsOf("on_update") :
          /\ log[1].ret.state = "Ok"
          /\ \A j \in CallsOf("on_update") : j < i => log[j].ret.state = "Ok"
    /\ Cardinality(CallsOf("on_close")) <= 1
    /\ \A i \in CallsOf("on_close") : \E j \in Exits : j < i
    /\ (log # <<>> /\ log[1].ret.state # "Ok") => CallsOf("on_close") = {}
    /\ Crashes # {} => CallsOf("on_close") = {}
    /\ pc = "returned" =>
          /\ Exits # {} => Cardinality(CallsOf("on_close")) = 1
          /\ \A m \in Messages :
                (ret = [state |-> "Crash", msg |-> m])
                    <=> (\E i \in Crashes : log[i].ret.msg = m)
          /\ Crashes = {} => ret = [state |-> "Exit"]
    /\ pc # "returned" => ret = Running

\* on_start returned Ok, the first frame was not ready, the first on_update
\* returned Ok and the second Exit; on_close crashed, and start returned Exit
C27_Witness ==
    /\ pc = "returned"
    /\ log = <<[fn |-> "on_start", ret |-> [state |-> "Ok"]],
               [fn |-> "next_frame_ready", ret |-> FALSE],
               [fn |-> "next_frame_ready", ret |-> TRUE],
               [fn |-> "on_update", ret |-> [state |-> "Ok"]],
               [fn |-> "next_frame_ready", ret |-> TRUE],
               [fn |-> "on_update", ret |-> [state |-> "Exit"]],
               [fn |-> "on_close", ret |-> [state |-> "Crash", msg |-> "a"]]>>
    /\ ret = [state |-> "Exit"]


(***************************************************************************)
(* NativeGlWindow::render_loop: the control walks from the initial batch   *)
(* of events through initialize and the frame loop to destroy; `log`       *)
(* keeps every call render_loop makes on the window, the manager and the   *)
(* state, `call.state_res` is the local state_res, `processed` the batches *)
(* handed to the manager.  The state of these runs loads no textures.      *)
(***************************************************************************)

\* most frames of a run of the model
MaxUpdates == 2

\* the size and the position the window is created with
WindowSize == <<2, 2>>
WindowPos == <<1, 1>>

\* NativeGlWindow::create(args)
NativeGlWindow_create ==
    [should_close |-> FALSE,
     size |-> WindowSize,
     pos |-> WindowPos,
     events |-> <<>>,
     image_load_threads |-> <<>>,
     image_thread_count |-> 0]

\* the result codes of State::initialize and State::update
Codes == {0, 1, 2}

\* the errors of gl::GetError() on which get_gl_errors panics
FatalGlErrors ==
    {"INVALID_ENUM", "INVALID_VALUE", "INVALID_OPERATION", "STACK_OVERFLOW",
     "STACK_UNDERFLOW", "OUT_OF_MEMORY", "INVALID_FRAMEBUFFER_OPERATION",
     "CONTEXT_LOST"}

\* the errors the GL calls of a callback can have left behind
GlErrorQueues ==
    {<<>>, <<"OTHER">>, <<"INVALID_ENUM">>, <<"OTHER", "OUT_OF_MEMORY">>}

\* self.get_gl_errors(): drains the errors, panics on the first fatal one
get_gl_errors(queue) ==
    IF \E i \in 1 .. Len(queue) : queue[i] \in FatalGlErrors THEN "panic" ELSE "ok"

\* what glfw delivers between two polls
GlEvents ==
    {<<>>,
     <<[type |-> "None"]>>,
     <<[type |-> "Scroll", x |-> 0, y |-> 1]>>,
     <<[type |-> "Close"], [type |-> "None"]>>}

IsSome(event) == event.type # "None"

\* self.poll_events() with gl_events delivered, up to the call of
\* poll_image_threads: the events that are not None replace self.events;
\* glfw raises the close flag on a close request
poll_events(win, gl_events) ==
    [win EXCEPT
        !.events = SelectSeq(gl_events, IsSome),
        !.should_close = @ \/ (\E i \in 1 .. Len(gl_events) : gl_events[i].type = "Close")]

\* self.get_events()
get_events(win) == win.events

\* self.close()
close(win) == [win EXCEPT !.should_close = TRUE]

\* a loop that goes on until update returns nonzero, whatever the window says
after_update_ignoring_close(state_res, closing) ==
    IF state_res # 0 THEN "destroy" ELSE "frame"

\* if state_res != 0 || self.should_close() { break; }
after_update(state_res, closing) ==
    IF state_res # 0 \/ closing THEN "destroy" ELSE "frame"

InitLoop ==
    /\ N = "i8"
    /\ overflow_checks = FALSE
    /\ call = [fn |-> "render_loop", args |-> <<>>]
    /\ arr = <<>>
    /\ h = 0
    /\ w = 0
    /\ self = NoMat
    /\ rhs = NoMat
    /\ num = 0
    /\ vec = <<>>
    /\ other = <<>>
    /\ man = DefaultEventManager_new
    /\ processed = <<>>
    /\ ret = Running
    /\ pc = "init_events"
    /\ log = <<>>
    /\ window = NativeGlWindow_create
    /\ threads = <<>>
    /\ textures = <<>>

\* the batch render_loop hands to the manager: before initialize the polled
\* events, the size and the position; in a frame the polled events
EventsFor(win) ==
    IF pc = "init_events"
    THEN get_events(win) \o <<[type |-> "Size", w |-> win.size[1], h |-> win.size[2]],
                              [type |-> "Position", x |-> win.pos[1], y |-> win.pos[2]]>>
    ELSE get_events(win)

\* self.poll_events(); manager.process_events(..), before initialize and at
\* the start of every frame (FrameManager::new(None) is always ready);
\* poll_image_threads finds no loader
PollAndProcess ==
    /\ pc \in {"init_events", "frame"}
    /\ Cardinality({i \in 1 .. Len(log) : log[i].fn = "update"}) < MaxUpdates
    /\ window.image_load_threads = <<>>
    /\ \E gl_events \in GlEvents :
          LET win == poll_events(window, gl_events)
          IN  /\ window' = win
              /\ man' = process_events(man, EventsFor(win))
              /\ processed' = Append(processed, EventsFor(win))
              /\ log' = log \o <<[fn |-> "poll_events"],
                                 [fn |-> "process_events", events |-> EventsFor(win)]>>
    /\ pc' = IF pc = "init_events" THEN "initialize" ELSE "update"
    /\ UNCHANGED <<N, overflow_checks, call, arr, h, w, self, rhs, num, vec, other,
                   ret, threads, textures>>

\* let mut state_res = state.initialize(&mut self, &mut manager); the
\* state may ask the window to close
Initialize ==
    /\ pc = "initialize"
    /\ \E code \in Codes, closes \in BOOLEAN :
          /\ call' = [fn |-> "render_loop", args |-> <<>>, state_res |-> code]
          /\ window' = IF closes THEN close(window) ELSE window
          /\ log' = Append(log, [fn |-> "initialize", ret |-> code])
    /\ pc' = "gl_errors_initialize"
    /\ UNCHANGED <<N, overflow_checks, arr, h, w, self, rhs, num, vec, other,
                   man, processed, ret, threads, textures>>

\* self.get_gl_errors(), after initialize and after destroy
GetGlErrors ==
    /\ pc \in {"gl_errors_initialize", "gl_errors_destroy"}
    /\ \E queue \in GlErrorQueues :
          /\ log' = Append(log, [fn |-> "get_gl_errors", ret |-> get_gl_errors(queue)])
          /\ pc' = IF get_gl_errors(queue) = "panic" THEN "panicked"
                   ELSE IF pc = "gl_errors_destroy" THEN "returned"
                   ELSE IF call.state_res = 0 THEN "frame"
                   ELSE "destroy"
    /\ UNCHANGED <<N, overflow_checks, call, arr, h, w, self, rhs, num, vec, other,
                   man, processed, ret, window, threads, textures>>

\* state_res = state.update(..); if state_res != 0 || self.should_close()
Update ==
    /\ pc = "update"
    /\ \E code \in Codes, closes \in BOOLEAN :
          LET win == IF closes THEN close(window) ELSE window
          IN  /\ call' = [call EXCEPT !.state_res = code]
              /\ window' = win
              /\ log' = log \o <<[fn |-> "update", ret |-> code]>>
                            \o (IF code # 0 THEN <<>>
                                ELSE <<[fn |-> "should_close", ret |-> win.should_close]>>)
              /\ pc' = after_update(code, win.should_close)
    /\ UNCHANGED <<N, overflow_checks, arr, h, w, self, rhs, num, vec, other,
                   man, processed, ret, threads, textures>>

\* state.destroy(&mut self, &mut manager, state_res)
Destroy ==
    /\ pc = "destroy"
    /\ log' = Append(log, [fn |-> "destroy", exit_code |-> call.state_res])
    /\ pc' = "gl_errors_destroy"
    /\ UNCHANGED <<N, overflow_checks, call, arr, h, w, self, rhs, num, vec, other,
                   man, processed, ret, window, threads, textures>>

NextLoop == PollAndProcess \/ Initialize \/ GetGlErrors \/ Update \/ Destroy

SpecLoop == InitLoop /\ [][NextLoop]_vars

\* the places in the log where the state was called
StateCalls == CallsOf("initialize") \cup CallsOf("update") \cup CallsOf("destroy")

\* render_loop has returned or panicked
LoopEnded == pc \in {"returned", "panicked"}

\* get_gl_errors panicked right after initialize
GlPanicAfterInitialize ==
    \E i \in CallsOf("get_gl_errors") :
        log[i].ret = "panic" /\ log[i - 1].fn = "initialize"

\* initialize is the first call on the state and is made at most once;
\* destroy is made at most once, is the last call on the state and gets the
\* code the call before it returned; update is never called when initialize
\* returned nonzero, nor after an update returned nonzero or the window
\* reported should_close; a batch of events is polled and processed right
\* before initialize and right before every update
LoopOrder ==
    /\ Cardinality(CallsOf("initialize")) <= 1
    /\ \A i \in StateCalls :
          (log[i].fn = "initialize") <=> (\A j \in StateCalls : i <= j)
    /\ Cardinality(CallsOf("destroy")) <= 1
    /\ \A d \in CallsOf("destroy") :
          /\ \A j \in StateCalls : j <= d
          /\ \E l \in StateCalls :
                /\ l < d
                /\ \A j \in StateCalls : j < d => j <= l
                /\ log[d].exit_code = log[l].ret
    /\ \A u \in CallsOf("update") :
          /\ \A i \in CallsOf("initialize") : log[i].ret = 0
          /\ \A j \in CallsOf("update") : j < u => log[j].ret = 0
          /\ \A j \in CallsOf("should_close") : j < u => ~log[j].ret
    /\ \A i \in CallsOf("initialize") \cup CallsOf("update") :
          /\ i > 2
          /\ log[i - 1].fn = "process_events"
          /\ log[i - 2].fn = "poll_events"
    /\ Len(processed) = Cardinality(CallsOf("process_events"))

\* C28 as stated: in every run initialize is called exactly once and
\* destroy exactly once and last, with the result code of the last
\* initialize / update call; update is never called when initialize
\* returned nonzero, nor again after an update returned nonzero or the
\* window reported should_close; the manager processes a batch of events
\* before initialize and before every update.
C28_DestroyInEveryRun ==
    /\ LoopOrder
    /\ LoopEnded =>
          /\ Cardinality(CallsOf("initialize")) = 1
          /\ Cardinality(CallsOf("destroy")) = 1

\* C28 amended: as stated, except that destroy is called exactly once in
\* the runs in which get_gl_errors does not panic after initialize, and is
\* not called at all in the runs in which it does.
C28_DestroyUnlessGlPanic ==
    /\ LoopOrder
    /\ LoopEnded =>
          /\ Cardinality(CallsOf("initialize")) = 1
          /\ Cardinality(CallsOf("destroy")) =
                (IF GlPanicAfterInitialize THEN 0 ELSE 1)

\* initialize and the first update returned 0; the second update returned 0
\* after a close request, and destroy got the code 0
C28_Witness ==
    /\ pc = "returned"
    /\ Cardinality(CallsOf("update")) = 2
    /\ \A u \in CallsOf("update") : log[u].ret = 0
    /\ processed[3] = <<[type |-> "Close"]>>
    /\ log[Len(log) - 1] = [fn |-> "destroy", exit_code |-> 0]
    /\ log[Len(log) - 2] = [fn |-> "should_close", ret |-> TRUE]


(***************************************************************************)
(* Asynchronous texture loading.  The window thread registers loads        *)
(* (load_texture_rgba) and polls (poll_events, whose poll_image_threads    *)
(* takes one step per try_recv and one per completed entry); every loader  *)
(* thread decodes, sends and returns in steps of its own, interleaved with *)
(* the steps of the window thread.  `threads[t]` is loader t with its      *)
(* channel, `textures[x]` the texture behind the Arc<Mutex<..>> x,         *)
(* `call` holds the locals of the running poll, `log` keeps the loads, the *)
(* messages received, the removals and the texture writes.                 *)
(***************************************************************************)

\* most loads registered in a run of the model
MaxLoads == 2

\* the image files asked for
Paths == {"a.png", "b.png"}

\* DynamicImage::solid_color([0xff, 0x80, 0xff, 0xff])
Placeholder == [solid_color |-> <<255, 128, 255, 255>>]

\* the image a loader decodes from the file at path
Image(path) == [decoded_from |-> path]

\* HashMap::remove(k)
remove(map, k) == [x \in (DOMAIN map) \ {k} |-> map[x]]

\* a try_recv that does not notice that the sender is gone
try_recv_never_disconnected(thread) ==
    IF thread.queue > 0 THEN "Ok" ELSE "Empty"

\* thread.2.try_recv() on the channel of a loader: a message that was sent
\* is received also after the sender is gone
try_recv(thread) ==
    IF thread.queue > 0 THEN "Ok"
    ELSE IF ~thread.sender THEN "Disconnected"
    ELSE "Empty"

\* the loaders whose thread has sent its message or has panicked
Finished(t) == threads[t].state \in {"sent", "returned", "panicked"}

InitTextures ==
    /\ N = "i8"
    /\ overflow_checks = FALSE
    /\ call = NoCall
    /\ arr = <<>>
    /\ h = 0
    /\ w = 0
    /\ self = NoMat
    /\ rhs = NoMat
    /\ num = 0
    /\ vec = <<>>
    /\ other = <<>>
    /\ man = DefaultEventManager_new
    /\ processed = <<>>
    /\ ret = 0
    /\ pc = "idle"
    /\ log = <<>>
    /\ window = NativeGlWindow_create
    /\ threads = <<>>
    /\ textures = <<>>

\* self.load_texture_rgba(path, mips), called on the window thread between
\* two polls: the placeholder texture, the channel, the loader thread, the
\* entry of the pending table
LoadTextureRgba ==
    /\ pc = "idle"
    /\ Len(threads) < MaxLoads
    /\ \E path \in Paths :
          LET tex == Len(textures) + 1
              handle == Len(threads) + 1
              index == window.image_thread_count
          IN  /\ textures' = Append(textures, [data |-> Placeholder, writes |-> 0])
              /\ threads' = Append(threads, [state |-> "spawned", path |-> path,
                                             queue |-> 0, sender |-> TRUE])
              /\ window' = [window EXCEPT
                               !.image_load_threads =
                                   insert(@, index, [tex |-> tex, thread |-> handle]),
                               !.image_thread_count = @ + 1]
              /\ log' = Append(log, [fn |-> "load_texture_rgba", index |-> index,
                                     tex |-> tex, thread |-> handle])
              /\ call' = [fn |-> "load_texture_rgba", args |-> <<path>>]
              /\ ret' = tex
    /\ UNCHANGED <<N, overflow_checks, arr, h, w, self, rhs, num, vec, other,
                   man, processed, pc>>

\* loader t: ImageReader::open(..).decode(), which panics when the file
\* cannot be opened or decoded; the panic drops the sender
Decode(t) ==
    /\ threads[t].state = "spawned"
    /\ \E ok \in BOOLEAN :
          threads' = [threads EXCEPT
                         ![t].state = IF ok THEN "decoded" ELSE "panicked",
                         ![t].sender = ok]
    /\ UNCHANGED <<N, overflow_checks, call, arr, h, w, self, rhs, num, vec, other,
                   man, processed, ret, pc, log, window, textures>>

\* loader t: sender.send(())
Send(t) ==
    /\ threads[t].state = "decoded"
    /\ threads' = [threads EXCEPT ![t].state = "sent", ![t].queue = @ + 1]
    /\ UNCHANGED <<N, overflow_checks, call, arr, h, w, self, rhs, num, vec, other,
                   man, processed, ret, pc, log, window, textures>>

\* loader t: returns the image; the closure and its sender are dropped
Return(t) ==
    /\ threads[t].state = "sent"
    /\ threads' = [threads EXCEPT ![t].state = "returned", ![t].sender = FALSE]
    /\ UNCHANGED <<N, overflow_checks, call, arr, h, w, self, rhs, num, vec, other,
                   man, processed, ret, pc, log, window, textures>>

\* one step of a loader thread
Loader == \E t \in 1 .. Len(threads) : Decode(t) \/ Send(t) \/ Return(t)

\* self.poll_events() up to the loop of poll_image_threads; `finished`
\* remembers the entries whose loader had finished when the poll began
PollEvents ==
    /\ pc = "idle"
    /\ \E gl_events \in GlEvents :
          window' = poll_events(window, gl_events)
    /\ call' = [fn |-> "poll_events", args |-> <<>>,
                todo |-> DOMAIN window.image_load_threads,
                completed_threads |-> <<>>,
                finished |-> {i \in DOMAIN window.image_load_threads :
                                 Finished(window.image_load_threads[i].thread)}]
    /\ pc' = IF DOMAIN window.image_load_threads = {} THEN "idle" ELSE "try_recv"
    /\ UNCHANGED <<N, overflow_checks, arr, h, w, self, rhs, num, vec, other,
                   man, processed, ret, log, threads, textures>>

\* one round of the first loop of poll_image_threads, in the order the
\* HashMap yields its entries
TryRecv ==
    /\ pc = "try_recv"
    /\ \E index \in call.todo :
          LET t == window.image_load_threads[index].thread
              r == try_recv(threads[t])
              completed == IF r = "Empty" THEN call.completed_threads
                           ELSE Append(call.completed_threads, <<r = "Ok", index>>)
          IN  /\ threads' = IF r = "Ok" THEN [threads EXCEPT ![t].queue = @ - 1]
                            ELSE threads
              /\ call' = [call EXCEPT !.todo = @ \ {index},
                                      !.completed_threads = completed]
              /\ log' = IF r = "Empty" THEN log
                        ELSE Append(log, [fn |-> "try_recv", index |-> index, ret |-> r])
              /\ pc' = IF call.todo # {index} THEN "try_recv"
                       ELSE IF completed # <<>> THEN "complete"
                       ELSE "idle"
    /\ UNCHANGED <<N, overflow_checks, arr, h, w, self, rhs, num, vec, other,
                   man, processed, ret, window, textures>>

\* one round of the second loop of poll_image_threads: the entry is
\* removed; after a message, thread.join() waits for the loader and the
\* image it returned is written to the texture
Complete ==
    /\ pc = "complete"
    /\ LET success == Head(call.completed_threads)[1]
           index == Head(call.completed_threads)[2]
           entry == window.image_load_threads[index]
           joined == threads[entry.thread].state
           removed == [fn |-> "remove", index |-> index]
       IN  /\ success => joined \in {"returned", "panicked"}
           /\ window' = [window EXCEPT !.image_load_threads = remove(@, index)]
           /\ IF success /\ joined = "returned"
              THEN /\ textures' =
                         [textures EXCEPT
                             ![entry.tex].data = Image(threads[entry.thread].path),
                             ![entry.tex].writes = @ + 1]
                   /\ log' = log \o <<removed,
                                      [fn |-> "set_data_mips", tex |-> entry.tex,
                                       thread |-> entry.thread]>>
              ELSE /\ textures' = textures
                   /\ log' = Append(log, removed)
    /\ call' = [call EXCEPT !.completed_threads = Tail(@)]
    /\ pc' = IF Tail(call.completed_threads) = <<>> THEN "idle" ELSE "complete"
    /\ UNCHANGED <<N, overflow_checks, arr, h, w, self, rhs, num, vec, other,
                   man, processed, ret, threads>>

NextTextures == LoadTextureRgba \/ Loader \/ PollEvents \/ TryRecv \/ Complete

SpecTextures == InitTextures /\ [][NextTextures]_vars

\* the places in the log of the calls fn that name the entry index
CallsOn(fn, index) == {i \in CallsOf(fn) : log[i].index = index}

\* the places in the log where the texture tex was written
WritesOf(tex) == {i \in CallsOf("set_data_mips") : log[i].tex = tex}

\* C29: every load registered by load_texture_rgba gets a distinct index
\* and stays in the pending table until a poll has observed the completion
\* message or the disconnection of its loader, and is then removed exactly
\* once; the shared texture is written at most once, by the polling thread,
\* with the image decoded by its own loader, and never when the loader
\* failed (the placeholder remains); under any interleaving of loaders and
\* polls no entry is removed twice, and none whose loader had finished
\* when a poll began is left behind when that poll has run.
C29_TexturesLoadedOnce ==
    /\ \A i, j \in CallsOf("load_texture_rgba") :
          i # j => log[i].index # log[j].index /\ log[i].tex # log[j].tex
    /\ \A l \in CallsOf("load_texture_rgba") :
          LET index == log[l].index
              tex == log[l].tex
              loader == threads[log[l].thread]
              pending == window.image_load_threads
              removals == CallsOn("remove", index)
              observed == CallsOn("try_recv", index)
          IN  /\ Cardinality(removals) <= 1
              /\ Cardinality(observed) <= 1
              /\ (index \in DOMAIN pending) <=> (removals = {})
              /\ index \in DOMAIN pending =>
                    pending[index] = [tex |-> tex, thread |-> log[l].thread]
              /\ \A r \in removals : \E o \in observed : l < o /\ o < r
              /\ \A o \in observed :
                    IF log[o].ret = "Ok"
                    THEN loader.state \in {"sent", "returned"}
                    ELSE log[o].ret = "Disconnected" /\ loader.state = "panicked"
              /\ textures[tex].writes = Cardinality(WritesOf(tex))
              /\ textures[tex].writes <= 1
              /\ \A x \in WritesOf(tex) :
                    /\ log[x].thread = log[l].thread
                    /\ loader.state = "returned"
                    /\ \E r \in removals : r < x
              /\ textures[tex].data =
                    (IF textures[tex].writes = 0 THEN Placeholder
                     ELSE Image(loader.path))
              /\ loader.state = "panicked" => textures[tex].data = Placeholder
    /\ (pc = "idle" /\ call.fn = "poll_events") =>
          call.finished \cap DOMAIN window.image_load_threads = {}

\* the loader of a.png succeeded and the loader of b.png failed: both
\* entries are gone, the first texture holds the image of a.png and the
\* second still the placeholder
C29_Witness ==
    /\ pc = "idle"
    /\ Len(threads) = 2
    /\ threads[1].path = "a.png" /\ threads[1].state = "returned"
    /\ threads[2].path = "b.png" /\ threads[2].state = "panicked"
    /\ window.image_load_threads = <<>>
    /\ textures = <<[data |-> Image("a.png"), writes |-> 1],
                    [data |-> Placeholder, writes |-> 0]>>


(***************************************************************************)
(* The harness of the per-batch and the accumulated state of               *)
(* DefaultEventManager: the batches hold Scroll and Size events, among     *)
(* them a Size event of the size a new manager stores.                     *)
(***************************************************************************)

\* most batches of scroll and size events handed to process_events
MaxScrollBatches == 3
\* most scroll and size events in all the batches together
MaxScrollEvents == 3

\* the events of these batches
ScrollEvents ==
    {[type |-> "Scroll", x |-> 0, y |-> 1],
     [type |-> "Scroll", x |-> 1, y |-> -1],
     [type |-> "Size", w |-> 0, h |-> 0],
     [type |-> "Size", w |-> 2, h |-> 2],
     [type |-> "Size", w |-> 1, h |-> 2],
     [type |-> "Close"]}

\* self.scroll_change()
scroll_change(m) == m.scroll_diff

\* self.total_scroll()
total_scroll(m) == m.total_scroll

\* self.screen_size_changed()
screen_size_changed(m) == m.win_size

\* man.process_events(&events) with a batch of scroll and size events
CallProcessScrollEvents ==
    /\ Len(processed) < MaxScrollBatches
    /\ \E k \in 0 .. MaxScrollEvents - EventCount(processed) :
          \E events \in [1 .. k -> ScrollEvents] :
              /\ man' = process_events(man, events)
              /\ processed' = Append(processed, events)
    /\ call' = [fn |-> "process_events", args |-> <<>>]
    /\ UNCHANGED <<pc, log, window, threads, textures, N, overflow_checks, arr, h, w,
                   self, rhs, num, vec, other, ret>>

NextScroll == CallProcessScrollEvents

SpecScroll == InitEvents /\ [][NextScroll]_vars

\* the places of the events of a type
PlacesOf(events, type) == {i \in 1 .. Len(events) : events[i].type = type}

\* the last Scroll event of the events, or (0, 0)
LastScroll(events) ==
    IF PlacesOf(events, "Scroll") = {} THEN <<0, 0>>
    ELSE LET e == events[Last(PlacesOf(events, "Scroll"))] IN <<e.x, e.y>>

RECURSIVE ScrollSum(_)
\* the sum of the Scroll events of the events
ScrollSum(events) ==
    IF events = <<>> THEN <<0, 0>>
    ELSE LET rest == ScrollSum(Tail(events))
             e == Head(events)
         IN  IF e.type = "Scroll" THEN <<e.x + rest[1], e.y + rest[2]>> ELSE rest

\* the size the manager stores after the events: the one of the last Size
\* event, or the (0, 0) of a new manager
StoredSize(events) ==
    IF PlacesOf(events, "Size") = {} THEN <<0, 0>>
    ELSE LET e == events[Last(PlacesOf(events, "Size"))] IN <<e.w, e.h>>

\* the last batch holds a Size event whose size differs from the size
\* stored when it is processed
SizeChangedIn(before, batch) ==
    \E i \in PlacesOf(batch, "Size") :
        <<batch[i].w, batch[i].h>> # StoredSize(before \o SubSeq(batch, 1, i - 1))

\* C30: after each process_events(batch), scroll_change() is the last
\* Scroll event of that batch, or (0, 0) if the batch has none;
\* total_scroll() is the sum of the Scroll events of all the batches so
\* far; screen_size_changed().1 is true exactly when that batch held a Size
\* event whose size differed from the size stored when it was processed.
C30_PerBatchAndAccumulated ==
    processed # <<>> =>
        LET batch == processed[Len(processed)]
            before == Flat(SubSeq(processed, 1, Len(processed) - 1))
        IN  /\ scroll_change(man) = LastScroll(batch)
            /\ total_scroll(man) = ScrollSum(Flat(processed))
            /\ screen_size_changed(man)[2] = SizeChangedIn(before, batch)
            /\ screen_size_changed(man)[1] = StoredSize(Flat(processed))

\* the first batch scrolls and sets the size; the second repeats the size:
\* the scroll change and the flag are cleared, the total and the size kept
C30_Witness ==
    /\ Len(processed) = 2
    /\ processed[1] = <<[type |-> "Scroll", x |-> 1, y |-> -1],
                        [type |-> "Size", w |-> 2, h |-> 2]>>
    /\ processed[2] = <<[type |-> "Size", w |-> 2, h |-> 2]>>
    /\ scroll_change(man) = <<0, 0>>
    /\ total_scroll(man) = <<1, -1>>
    /\ screen_size_changed(man) = <<(<<2, 2>>), FALSE>>

=============================================================================
